---- MODULE Spec2Model ----
(***************************************************************************)
(* A model of the cluster-image-registry-operator reconciliation code:     *)
(*   - the condition list of the Config status (updateCondition and its    *)
(*     two callers), specification SpecCond;                               *)
(*   - the deployment status sync (isDeploymentStatusAvailable,            *)
(*     isDeploymentStatusComplete, syncDeploymentStatus), SpecDeploy.      *)
(* Each specification has its own Init and Next over the one set of        *)
(* variables; a specification leaves the variables of the other parts at   *)
(* their idle values.                                                      *)
(***************************************************************************)
EXTENDS Integers, Sequences, FiniteSets, TLC

VARIABLES
    conditions,     \* cr.Status.Conditions: a sequence of OperatorCondition
    condSet,        \* the condition types updateCondition was called with
    now,            \* the clock read by metav1.Now()
    statusChanged,  \* the *modified / *statusChanged flag passed by pointer
    dep,            \* the deployment object handed to syncDeploymentStatus
    clusterStatus,  \* the conditions held by h.clusterStatus (StatusHandler)
    syncOut,        \* what the last syncDeploymentStatus call computed
    cr,             \* the Config (imageregistryv1.Config) a pass is run for
    rmPc,           \* Generator.Remove: where the call stands
    rmIdx,          \* Generator.Remove: index of the generator being deleted
    rmUnowned,      \* generators whose Owned() returned false in this call
    rmDeleteCalls,  \* generators whose Delete was called in this call
    rmDeleteFailed, \* generators whose Delete returned an error other than not-found
    rmResult,       \* what Generator.Remove returned
    rmElapsed,      \* seconds since wait.PollImmediate was entered
    rmCalls,        \* number of RemoveStorage calls made
    rmRetriable,    \* number of them that returned (true, err)
    rmFatalAt,      \* the call that returned (false, err), 0 when none did
    hCreated,       \* NewHandler has returned a handler
    hBootstrapped,  \* h.Bootstrap() and h.clusterStatus.Create() have run
    hEvent,         \* the last event handed to Handler.Handle
    hHandled,       \* number of events Handle has returned from
    hPasses,        \* number of reconcile passes Handle has run
    hWrites,        \* what Handle has written: "object", "status"
    hReturn,        \* what the last Handle call returned
    gStore,         \* the cluster objects the generators read and write
    gaPc,           \* Generator.Apply: where the call stands
    gaIdx,          \* Generator.Apply: index of the generator being applied
    gaAttempt,      \* attempt of retry.RetryOnConflict for that generator
    gaResult,       \* what Generator.Apply returned
    gaStorage,      \* what syncStorage asked of the storage driver
    gaListed,       \* the routes removeObsoleteRoutes got from the lister
    gaLog,          \* API calls of this pass that changed the cluster
    gaFaults,       \* API calls of this pass that failed
    gaPasses,       \* number of Apply calls started
    gaPrevOk,       \* whether the Apply call before this one returned nil
    gaShared,       \* the object the last Get returned, as the lister's cache holds it
    gaStart,        \* the cluster objects before the first Apply call, where calls are cut short
    gaCrashed,      \* whether an Apply call was cut short by the end of the process
    storage,        \* o.Spec.Storage of the ImageRegistry resource
    finalizer,      \* whether the resource carries the operator's finalizer
    configState,    \* the persisted ConfigState snapshot
    tStore,         \* the cluster objects the templates stand for
    tTemplates,     \* CreateOrUpdateResources: the generated templates
    tPc,            \* CreateOrUpdateResources: where the call stands
    tIdx,           \* index of the template being applied
    tAttempt,       \* attempt of retry.RetryOnConflict for that template
    tCurrent,       \* the object sdk.Get fetched in this attempt
    tResult,        \* what CreateOrUpdateResources returned
    tModified,      \* the flag *modified of the call
    tWrites,        \* API calls of this pass that changed the cluster
    tFaults,        \* calls of this pass that failed
    tPasses,        \* number of CreateOrUpdateResources calls started
    tCleanPrev,     \* whether the call before this one returned nil
    mKind,          \* ApplyService or ApplyDeploymentConfig: the kind of the object
    mStore,         \* the service or deployment config held by the cluster
    mExpect,        \* the object the call was given (expect)
    mPc,            \* where the call stands
    mAttempt,       \* attempt of retry.RetryOnConflict
    mCurrent,       \* the object sdk.Get fetched in this attempt
    mModified,      \* the flag *modified of the call
    mResult,        \* what the call returned
    mWrites,        \* API calls of this call that changed the cluster
    mFaults,        \* number of API calls of this call that failed
    mCalls,         \* number of calls started
    requests,       \* cr.Spec.Requests of the Config PodTemplateSpec is given
    qOut            \* what PodTemplateSpec made of the request limits

condVars == <<conditions, now, statusChanged, condSet>>
depVars  == <<dep, clusterStatus, syncOut>>
rmVars   == <<rmPc, rmIdx, rmUnowned, rmDeleteCalls, rmDeleteFailed, rmResult, rmElapsed, rmCalls,
              rmRetriable, rmFatalAt>>
hVars    == <<hCreated, hBootstrapped, hEvent, hHandled, hPasses, hReturn, hWrites>>
gaVars   == <<gStore, gaPc, gaIdx, gaAttempt, gaResult, gaStorage, gaListed, gaLog,
              gaFaults, gaPasses, gaPrevOk, gaShared, gaStart, gaCrashed>>
gaPassVars == <<gaPc, gaIdx, gaAttempt, gaResult, gaStorage, gaListed, gaLog,
                gaFaults, gaPasses, gaPrevOk, gaShared, gaStart, gaCrashed>>
tVars    == <<storage, finalizer, configState, tStore, tTemplates, tPc, tIdx, tAttempt,
              tCurrent, tResult, tModified, tWrites, tFaults, tPasses, tCleanPrev>>
mVars    == <<mKind, mStore, mExpect, mPc, mAttempt, mCurrent, mModified, mResult, mWrites,
              mFaults, mCalls>>
qVars    == <<requests, qOut>>
vars     == <<conditions, now, statusChanged, condSet, dep, clusterStatus, syncOut, cr,
              rmPc, rmIdx, rmUnowned, rmDeleteCalls, rmDeleteFailed, rmResult, rmElapsed,
              rmCalls, rmRetriable, rmFatalAt,
              hCreated, hBootstrapped, hEvent, hHandled, hPasses, hReturn, hWrites,
              gStore, gaPc, gaIdx, gaAttempt, gaResult, gaStorage, gaListed, gaLog,
              gaShared, gaStart, gaCrashed,
              gaFaults, gaPasses, gaPrevOk,
              storage, finalizer, configState, tStore, tTemplates, tPc, tIdx, tAttempt,
              tCurrent, tResult, tModified, tWrites, tFaults, tPasses, tCleanPrev,
              mKind, mStore, mExpect, mPc, mAttempt, mCurrent, mModified, mResult, mWrites,
              mFaults, mCalls, requests, qOut>>

(***************************************************************************)
(* Bounds of the model.                                                    *)
(***************************************************************************)
MaxTime == 3
MaxReplicas == 1
MaxGeneration == 2
MaxRoutes == 1
MaxUnowned == 1
MaxEvents == 2
MaxFaults == 1
MaxPasses == 2

\* The number up to which SpecConverge counts the CreateOrUpdateResources
\* calls; the calls themselves go on.
MaxConvergePasses == 4

\* The largest absolute value of a request limit of the Config.
MaxLimit == 1

(***************************************************************************)
(* Condition list: part_001, updateCondition and its callers.              *)
(***************************************************************************)
ConditionStatuses == {"True", "False"}

\* operatorapi.OperatorStatusTypeAvailable and ...TypeSyncSuccessful are the
\* two types the handler sets; "Failing" stands for a type set by others.
ConditionTypes == {"Available", "SyncSuccessful", "Failing"}

Condition(type, status, time, reason) ==
    [type |-> type, status |-> status, lastTransitionTime |-> time, reason |-> reason]

\* An updateCondition that appends the condition whether or not the list has
\* one of its type.
updateConditionList_AppendAlways(conds, condition) ==
    Append(conds, condition)

\* The list updateCondition leaves in cr.Status.Conditions: every entry of
\* the condition's type is replaced by the condition as given (its
\* LastTransitionTime included), the others are kept in place, and a
\* condition of a type not in the list is appended.
updateConditionList(conds, condition) ==
    IF \E i \in DOMAIN conds : conds[i].type = condition.type
    THEN [i \in DOMAIN conds |->
            IF conds[i].type = condition.type THEN condition ELSE conds[i]]
    ELSE Append(conds, condition)

\* An updateCondition that reports a modification whenever the entry of the
\* type is not the condition as given.
updateConditionModified_AnyField(conds, condition) ==
    ~ \E i \in DOMAIN conds : conds[i] = condition

\* The value updateCondition returns.
updateConditionModified(conds, condition) ==
    \/ \E i \in DOMAIN conds :
          conds[i].type = condition.type /\ conds[i].status # condition.status
    \/ ~ \E i \in DOMAIN conds : conds[i].type = condition.type

updateCondition(condition) ==
    /\ conditions' = updateConditionList(conditions, condition)
    /\ condSet' = condSet \cup {condition.type}
    /\ statusChanged' = (statusChanged \/ updateConditionModified(conditions, condition))

conditionResourceApply(status) ==
    /\ updateCondition(Condition("Available", status, now, "ResourceApplied"))
    /\ UNCHANGED now

conditionSyncDeploymentReason(syncSuccessful) ==
    IF syncSuccessful = "False" THEN "DeploymentInProgress" ELSE "DeploymentProgressed"

conditionSyncDeployment(syncSuccessful) ==
    /\ updateCondition(Condition("SyncSuccessful", syncSuccessful, now,
                                 conditionSyncDeploymentReason(syncSuccessful)))
    /\ UNCHANGED now

\* A new handler invocation starts with statusChanged = false (part_001:227, 293).
ResetFlag ==
    /\ statusChanged
    /\ statusChanged' = FALSE
    /\ UNCHANGED <<conditions, now, condSet>>

Tick ==
    /\ now < MaxTime
    /\ now' = now + 1
    /\ UNCHANGED <<conditions, statusChanged, condSet>>

\* The condition lists a Config may carry when the handler first sees it.
InitialConditions ==
    { <<>>,
      <<Condition("Failing", "False", 0, "External")>>,
      <<Condition("Available", "True", 0, "ResourceApplied")>>,
      <<Condition("Failing", "False", 0, "External"),
        Condition("Available", "True", 0, "ResourceApplied")>>,
      <<Condition("SyncSuccessful", "False", 0, "DeploymentInProgress"),
        Condition("Failing", "True", 0, "External"),
        Condition("Available", "False", 0, "ResourceApplied")>> }

CondInit ==
    /\ conditions \in InitialConditions
    /\ now = 0
    /\ statusChanged = FALSE
    /\ condSet = {}

CondIdle ==
    /\ conditions = <<>>
    /\ now = 0
    /\ statusChanged = FALSE
    /\ condSet = {}

(***************************************************************************)
(* Deployment status: part_001, lines 85-149.                              *)
(***************************************************************************)
Replicas == 0 .. MaxReplicas
Generations == 1 .. MaxGeneration

\* appsapi.DeploymentConfig has Spec.Replicas int32; kappsapi.Deployment has
\* Spec.Replicas *int32, nil when replicasSet is FALSE.
DeploymentObjects ==
    [kind : {"DeploymentConfig"}, replicasSet : {TRUE}, specReplicas : Replicas,
     updated : Replicas, total : Replicas, available : -1 .. MaxReplicas,
     observedGeneration : Generations, generation : Generations]
    \cup
    [kind : {"Deployment"}, replicasSet : {TRUE}, specReplicas : Replicas,
     updated : Replicas, total : Replicas, available : -1 .. MaxReplicas,
     observedGeneration : Generations, generation : Generations]
    \cup
    [kind : {"Deployment"}, replicasSet : {FALSE}, specReplicas : {0},
     updated : Replicas, total : Replicas, available : -1 .. MaxReplicas,
     observedGeneration : Generations, generation : Generations]

NoDeployment ==
    [kind |-> "none", replicasSet |-> FALSE, specReplicas |-> 0, updated |-> 0,
     total |-> 0, available |-> 0, observedGeneration |-> 0, generation |-> 0]

\* A slip of the comparison: a deployment with no available replica counts.
isDeploymentStatusAvailable_AtLeastZero(o) ==
    o.available >= 0

isDeploymentStatusAvailable(o) ==
    o.available > 0

\* The replica target the completeness test compares with: Spec.Replicas, and
\* 1 for a Deployment whose Spec.Replicas is nil.
replicasTarget(o) ==
    IF o.kind = "Deployment" /\ ~o.replicasSet THEN 1 ELSE o.specReplicas

\* A slip that forgets the available replicas.
isDeploymentStatusComplete_NoAvailable(o) ==
    /\ o.updated = replicasTarget(o)
    /\ o.total = replicasTarget(o)
    /\ o.observedGeneration >= o.generation

isDeploymentStatusComplete(o) ==
    /\ o.updated = replicasTarget(o)
    /\ o.total = replicasTarget(o)
    /\ o.available = replicasTarget(o)
    /\ o.observedGeneration >= o.generation

operatorAvailable(o) ==
    IF isDeploymentStatusAvailable(o) THEN "True" ELSE "False"

operatorProgressing(o) ==
    IF isDeploymentStatusComplete(o) THEN "False" ELSE "True"

\* A slip that hands the Progressing status on as it is.
syncSuccessfulOf_Same(progressing) ==
    progressing

syncSuccessfulOf(progressing) ==
    IF progressing = "False" THEN "True" ELSE "False"

\* h.clusterStatus.Update(type, status, msg): the StatusHandler writes the
\* cluster-operator condition, or fails and leaves it as it is.
clusterStatusUpdate(cs, type, status, ok) ==
    IF ok THEN [cs EXCEPT ![type] = status] ELSE cs

\* A syncDeploymentStatus that returns when the write of Available fails.
syncDeploymentStatus_StopAtFailure(okAvailable, okProgressing) ==
    /\ dep.kind # "none"
    /\ IF okAvailable
       THEN /\ clusterStatus' =
                  clusterStatusUpdate(
                      clusterStatusUpdate(clusterStatus, "Available", operatorAvailable(dep), TRUE),
                      "Progressing", operatorProgressing(dep), okProgressing)
            /\ syncOut' = [ran |-> TRUE,
                           available |-> operatorAvailable(dep),
                           progressing |-> operatorProgressing(dep),
                           availableWritten |-> TRUE,
                           progressingCalled |-> TRUE,
                           progressingWritten |-> okProgressing]
            /\ conditionSyncDeployment(syncSuccessfulOf(operatorProgressing(dep)))
       ELSE /\ syncOut' = [ran |-> TRUE,
                           available |-> operatorAvailable(dep),
                           progressing |-> operatorProgressing(dep),
                           availableWritten |-> FALSE,
                           progressingCalled |-> FALSE,
                           progressingWritten |-> FALSE]
            /\ UNCHANGED <<clusterStatus, condVars>>
    /\ UNCHANGED <<dep, cr, rmVars, hVars, gaVars, tVars, mVars, qVars>>

\* syncDeploymentStatus: the two writes of the cluster-operator conditions,
\* each of which may fail and is then only logged, and the update of the
\* SyncSuccessful condition of the resource.
syncDeploymentStatus(okAvailable, okProgressing) ==
    /\ dep.kind # "none"
    /\ clusterStatus' =
          clusterStatusUpdate(
              clusterStatusUpdate(clusterStatus, "Available", operatorAvailable(dep), okAvailable),
              "Progressing", operatorProgressing(dep), okProgressing)
    /\ syncOut' = [ran |-> TRUE,
                   available |-> operatorAvailable(dep),
                   progressing |-> operatorProgressing(dep),
                   availableWritten |-> okAvailable,
                   progressingCalled |-> TRUE,
                   progressingWritten |-> okProgressing]
    /\ conditionSyncDeployment(syncSuccessfulOf(operatorProgressing(dep)))
    /\ UNCHANGED <<dep, cr, rmVars, hVars, gaVars, tVars, mVars, qVars>>

SyncDeploymentStatus ==
    \E okAvailable \in BOOLEAN, okProgressing \in BOOLEAN :
        syncDeploymentStatus(okAvailable, okProgressing)

NoSync ==
    [ran |-> FALSE, available |-> "Unset", progressing |-> "Unset",
     availableWritten |-> FALSE, progressingCalled |-> FALSE, progressingWritten |-> FALSE]

\* The deployment controller moves the deployment: one field of the object
\* changes between two events.
DeploymentChanged(o) ==
    /\ o \in DeploymentObjects
    /\ o # dep
    /\ dep' = o
    /\ syncOut' = NoSync
    /\ UNCHANGED <<clusterStatus, conditions, now, statusChanged, condSet, cr, rmVars, hVars, gaVars, tVars, mVars, qVars>>

DeploymentChange ==
    /\ dep.kind # "none"
    /\ \/ \E f \in {"specReplicas", "updated", "total", "available",
                     "observedGeneration", "generation"} :
             \E v \in (-1 .. MaxReplicas) \cup Generations :
                 DeploymentChanged([dep EXCEPT ![f] = v])
       \/ DeploymentChanged([dep EXCEPT !.replicasSet = ~dep.replicasSet])

ClusterStatusUnset ==
    [t \in {"Available", "Progressing", "Failing"} |-> "Unset"]

DeployInit ==
    /\ dep \in DeploymentObjects
    /\ clusterStatus = ClusterStatusUnset
    /\ syncOut = NoSync

DeployIdle ==
    /\ dep = NoDeployment
    /\ clusterStatus = ClusterStatusUnset
    /\ syncOut = NoSync

(***************************************************************************)
(* The Config and the generator list: generator.go, lines 42-103.          *)
(***************************************************************************)
RouteNames == {"a", "b"}
DefaultRouteName == "default-route"

RECURSIVE SeqsUpTo(_, _)
SeqsUpTo(S, n) ==
    IF n = 0 THEN {<<>>}
    ELSE SeqsUpTo(S, n - 1)
         \cup {Append(q, x) : q \in {r \in SeqsUpTo(S, n - 1) : Len(r) = n - 1}, x \in S}

\* cr.Spec.Routes: a list; nothing keeps its names distinct.
RouteLists == SeqsUpTo(RouteNames, MaxRoutes)

NoConfig == [defaultRoute |-> FALSE, routes |-> <<>>]

Configs == [defaultRoute : BOOLEAN, routes : RouteLists]

ConfigIdle == cr = NoConfig

Mutator(kind, name) == [kind |-> kind, name |-> name]

listRoutes(c) ==
    (IF c.defaultRoute THEN <<Mutator("Route", DefaultRouteName)>> ELSE <<>>)
    \o [i \in 1 .. Len(c.routes) |-> Mutator("Route", c.routes[i])]

\* The generators before the routes, in the order Generator.list appends them.
listFixed ==
    << Mutator("ClusterRole", "ClusterRole"),
       Mutator("ClusterRoleBinding", "ClusterRoleBinding"),
       Mutator("ServiceAccount", "ServiceAccount"),
       Mutator("ServiceCA", "ServiceCA"),
       Mutator("CAConfig", "CAConfig"),
       Mutator("Secret", "Secret"),
       Mutator("ImageConfig", "ImageConfig"),
       Mutator("NodeCADaemonSet", "NodeCADaemonSet"),
       Mutator("Service", "Service"),
       Mutator("Deployment", "Deployment") >>

\* Generator.list with the cluster operator appended before the routes.
list_StatusBeforeRoutes(c) ==
    listFixed \o <<Mutator("ClusterOperator", "ClusterOperator")>> \o listRoutes(c)

list(c) ==
    listFixed \o listRoutes(c) \o <<Mutator("ClusterOperator", "ClusterOperator")>>

(***************************************************************************)
(* Generator.Remove: generator.go, lines 243-290.                          *)
(***************************************************************************)
\* wait.PollImmediate(1*time.Second, 5*time.Minute, ...), in seconds.
PollInterval == 1
PollTimeout == 300

RemoveIdle ==
    /\ rmPc = "idle"
    /\ rmIdx = 0
    /\ rmUnowned = {}
    /\ rmDeleteCalls = {}
    /\ rmDeleteFailed = {}
    /\ rmResult = "none"
    /\ rmElapsed = 0
    /\ rmCalls = 0
    /\ rmRetriable = 0
    /\ rmFatalAt = 0

\* Remove is entered; g.list(cr) returns the generators or fails.
RemoveList ==
    /\ rmPc = "idle"
    /\ \/ /\ rmPc' = "delete"
          /\ rmIdx' = 1
          /\ UNCHANGED rmResult
       \/ /\ rmPc' = "done"
          /\ rmResult' = "err"
          /\ UNCHANGED rmIdx
    /\ UNCHANGED <<rmUnowned, rmDeleteCalls, rmDeleteFailed, rmElapsed, rmCalls, rmRetriable,
                   rmFatalAt>>
    /\ UNCHANGED <<condVars, depVars, cr, hVars, gaVars, tVars, mVars, qVars>>

RouteKeys == RouteNames \cup {DefaultRouteName}

\* The objects the generators of any Config stand for.
StoreKeys ==
    {listFixed[i] : i \in DOMAIN listFixed}
    \cup {Mutator("Route", n) : n \in RouteKeys}
    \cup {Mutator("ClusterOperator", "ClusterOperator")}

\* A cluster object: whether it exists, whether its content is the one its
\* generator wants ("desired") or another ("stale"), and for a route whether
\* it carries the mark RouteIsCreatedByOperator looks for.
Absent == [exists |-> FALSE, content |-> "stale", marker |-> FALSE]

Object(content, marker) == [exists |-> TRUE, content |-> content, marker |-> marker]

\* gen.Delete(opts) returned nil: the object is gone from the cluster.
mutatorDelete(store, gen) == [store EXCEPT ![gen] = Absent]

\* A loop that goes on to the next generator whatever Delete returned.
RemoveDeleteStep_GoOnAfterError(owned, deleted) ==
    LET gen == list(cr)[rmIdx] IN
    IF ~owned
    THEN /\ rmUnowned' = rmUnowned \cup {gen}
         /\ rmIdx' = rmIdx + 1
         /\ UNCHANGED <<rmPc, rmDeleteCalls, rmDeleteFailed, rmResult, gStore>>
    ELSE /\ rmDeleteCalls' = rmDeleteCalls \cup {gen}
         /\ rmDeleteFailed' = IF deleted = "err" THEN rmDeleteFailed \cup {gen}
                              ELSE rmDeleteFailed
         /\ gStore' = IF deleted = "ok" THEN mutatorDelete(gStore, gen) ELSE gStore
         /\ rmIdx' = rmIdx + 1
         /\ UNCHANGED <<rmUnowned, rmPc, rmResult>>

\* A loop that calls Delete whatever Owned() returned.
RemoveDeleteStep_DeleteUnowned(owned, deleted) ==
    LET gen == list(cr)[rmIdx] IN
    /\ rmUnowned' = IF owned THEN rmUnowned ELSE rmUnowned \cup {gen}
    /\ rmDeleteCalls' = rmDeleteCalls \cup {gen}
    /\ IF deleted = "err"
       THEN /\ rmDeleteFailed' = rmDeleteFailed \cup {gen}
            /\ rmPc' = "done"
            /\ rmResult' = "err"
            /\ UNCHANGED <<rmIdx, gStore>>
       ELSE /\ gStore' = IF deleted = "ok" THEN mutatorDelete(gStore, gen) ELSE gStore
            /\ rmIdx' = rmIdx + 1
            /\ UNCHANGED <<rmPc, rmDeleteFailed, rmResult>>

\* One round of the loop over the generators: Owned(), then Delete(opts).
\* deleted is "ok", "notfound" or "err" as Delete returns nil, a not-found
\* error or another error.
RemoveDeleteStep(owned, deleted) ==
    LET gen == list(cr)[rmIdx] IN
    IF ~owned
    THEN /\ rmUnowned' = rmUnowned \cup {gen}
         /\ rmIdx' = rmIdx + 1
         /\ UNCHANGED <<rmPc, rmDeleteCalls, rmDeleteFailed, rmResult, gStore>>
    ELSE /\ rmDeleteCalls' = rmDeleteCalls \cup {gen}
         /\ UNCHANGED rmUnowned
         /\ IF deleted = "err"
            THEN /\ rmDeleteFailed' = rmDeleteFailed \cup {gen}
                 /\ rmPc' = "done"
                 /\ rmResult' = "err"
                 /\ UNCHANGED <<rmIdx, gStore>>
            ELSE /\ gStore' = IF deleted = "ok" THEN mutatorDelete(gStore, gen) ELSE gStore
                 /\ rmIdx' = rmIdx + 1
                 /\ UNCHANGED <<rmPc, rmDeleteFailed, rmResult>>

\* Owned() says the same of an object every time it is asked within one call;
\* Delete of an object that exists does not return not-found, Delete of one
\* that does not exist does not return nil.
RemoveDelete ==
    /\ rmPc = "delete"
    /\ rmIdx <= Len(list(cr))
    /\ \E owned \in BOOLEAN, deleted \in {"ok", "notfound", "err"} :
          LET gen == list(cr)[rmIdx] IN
          /\ gen \in rmUnowned => ~owned
          /\ ~owned => (gen \in rmUnowned \/ Cardinality(rmUnowned) < MaxUnowned)
          /\ ~owned => deleted = "ok"
          /\ owned /\ deleted = "ok" => gStore[gen].exists
          /\ owned /\ deleted = "notfound" => ~gStore[gen].exists
          /\ RemoveDeleteStep(owned, deleted)
    /\ UNCHANGED <<rmElapsed, rmCalls, rmRetriable, rmFatalAt>>
    /\ UNCHANGED <<condVars, depVars, cr, hVars, gaPassVars, tVars, mVars, qVars>>

\* storage.NewDriverFromStatus returns the driver or fails.
RemoveDriver ==
    /\ rmPc = "delete"
    /\ rmIdx > Len(list(cr))
    /\ \/ /\ rmPc' = "poll"
          /\ UNCHANGED rmResult
       \/ /\ rmPc' = "done"
          /\ rmResult' = "err"
    /\ UNCHANGED <<rmIdx, rmUnowned, rmDeleteCalls, rmDeleteFailed, rmElapsed, rmCalls,
                   rmRetriable, rmFatalAt>>
    /\ UNCHANGED <<condVars, depVars, cr, hVars, gaVars, tVars, mVars, qVars>>

\* A condition function that hands the error of an earlier call on: after a
\* retriable error a call without error ends the poll with an error.
pollCondition_KeepsError(retriable, failed) ==
    IF failed
    THEN IF retriable THEN "again" ELSE "fail"
    ELSE IF rmRetriable > 0 THEN "fail" ELSE "stop"

\* A slip that polls again whatever the error is.
pollCondition_AlwaysAgain(retriable, failed) ==
    IF failed THEN "again" ELSE "stop"

\* What the condition function handed to PollImmediate returns for a
\* RemoveStorage result: "stop" (true, nil), "fail" (true, derr) or
\* "again" (false, nil).
pollCondition(retriable, failed) ==
    IF failed
    THEN IF retriable THEN "again" ELSE "fail"
    ELSE "stop"

\* A slip that lets one more tick pass after the timeout.
pollTimedOut_OneTickLate(elapsed) ==
    elapsed > PollTimeout

\* PollImmediate gives up when the next tick would pass the timeout.
pollTimedOut(elapsed) ==
    elapsed + PollInterval > PollTimeout

\* One call of the condition function: RemoveStorage, then either the end
\* of the poll or the wait for the next tick.
RemovePollStep(retriable, failed) ==
    LET c == pollCondition(retriable, failed) IN
    /\ rmCalls' = rmCalls + 1
    /\ rmRetriable' = IF failed /\ retriable THEN rmRetriable + 1 ELSE rmRetriable
    /\ rmFatalAt' = IF failed /\ ~retriable THEN rmCalls + 1 ELSE rmFatalAt
    /\ CASE c = "stop" ->
              /\ rmPc' = "done"
              /\ rmResult' = "ok"
              /\ UNCHANGED rmElapsed
         [] c = "fail" ->
              /\ rmPc' = "done"
              /\ rmResult' = "err"
              /\ UNCHANGED rmElapsed
         [] c = "again" /\ pollTimedOut(rmElapsed) ->
              /\ rmPc' = "done"
              /\ rmResult' = "err"
              /\ UNCHANGED rmElapsed
         [] OTHER ->
              /\ rmElapsed' = rmElapsed + PollInterval
              /\ UNCHANGED <<rmPc, rmResult>>

RemovePoll ==
    /\ rmPc = "poll"
    /\ \E retriable \in BOOLEAN, failed \in BOOLEAN :
          /\ ~failed => ~retriable
          /\ RemovePollStep(retriable, failed)
    /\ UNCHANGED <<rmIdx, rmUnowned, rmDeleteCalls, rmDeleteFailed>>
    /\ UNCHANGED <<condVars, depVars, cr, hVars, gaVars, tVars, mVars, qVars>>

(***************************************************************************)
(* Generator.Apply: generator.go, lines 105-241.                           *)
(***************************************************************************)
\* retry.DefaultBackoff.Steps: the attempts retry.RetryOnConflict makes.
RetrySteps == 4

\* gen.Create(): the desired object is created; a route the operator
\* creates carries its mark.
mutatorCreate(gen) == Object("desired", gen.kind = "Route")

\* gen.Update(o): whether the generator finds something to change.
mutatorChanged(gen, o) == o.content # "desired"

\* gen.Update(o): the object written when something changes.
mutatorUpdate(gen, o) == [o EXCEPT !.content = "desired"]

RouteIsCreatedByOperator(route) == route.marker

\* knownNames of removeObsoleteRoutes: the names of the route generators.
knownNames(c) == {listRoutes(c)[i].name : i \in DOMAIN listRoutes(c)}

\* The loop of removeObsoleteRoutes without its first test.
isObsoleteRoute_IgnoreMark(name, route, c) ==
    name \notin knownNames(c)

\* The test of the loop of removeObsoleteRoutes: the route is deleted.
isObsoleteRoute(name, route, c) ==
    /\ RouteIsCreatedByOperator(route)
    /\ name \notin knownNames(c)

\* A closure that hands every error on as a conflict.
closureError_AlwaysConflict(op, err) ==
    "conflict"

\* The error the closure handed to RetryOnConflict returns when the API call
\* op fails with err ("conflict" or "error"): Get and Create errors are
\* wrapped by fmt.Errorf, an Update conflict is returned as it is.
closureError(op, err) ==
    IF op = "update" /\ err = "conflict" THEN "conflict" ELSE "error"

\* A retry loop that makes one attempt more.
retryOnConflict_OneMore(attempt, err) ==
    IF err = "conflict" /\ attempt <= RetrySteps THEN "retry" ELSE "return"

\* retry.RetryOnConflict: a conflict is tried again while attempts are left.
retryOnConflict(attempt, err) ==
    IF err = "conflict" /\ attempt < RetrySteps THEN "retry" ELSE "return"

NoStorage ==
    [driver |-> FALSE, changed |-> FALSE, existsCalled |-> FALSE, exists |-> FALSE,
     existsErr |-> FALSE, createCalls |-> 0]

\* gaStart where no Apply call is cut short: the start is not recorded.
NoStart == [k \in StoreKeys |-> Absent]

ApplyPassIdle ==
    /\ gaPc = "idle"
    /\ gaIdx = 0
    /\ gaAttempt = 0
    /\ gaResult = "none"
    /\ gaStorage = NoStorage
    /\ gaListed = {}
    /\ gaLog = <<>>
    /\ gaFaults = <<>>
    /\ gaPasses = 0
    /\ gaPrevOk = FALSE
    /\ gaShared = Absent
    /\ gaStart = NoStart
    /\ gaCrashed = FALSE

ApplyIdle ==
    /\ gStore = [k \in StoreKeys |-> Absent]
    /\ ApplyPassIdle

Fault(op, err) == [op |-> op, err |-> err]

\* An API call can fail while faults are left in the pass; the pass that
\* follows a failed pass meets no failure.
CanFail == Len(gaFaults) < MaxFaults /\ (gaPasses = 1 \/ gaPrevOk)

\* Apply returns err: "ErrStorageNotConfigured" and "ConfigurationError" are
\* returned as they are, every other error as a new error made by fmt.Errorf.
ApplyReturn(err) ==
    /\ gaPc' = "done"
    /\ gaResult' = err

\* A syncStorage that creates the storage only when it changed.
runCreate_OnlyChanged(changed, exists) ==
    changed

\* runCreate of syncStorage after its tests: changed is what StorageChanged
\* returned, exists what StorageExists returned when it was asked.
runCreate(changed, exists) ==
    changed \/ ~exists

\* Apply is entered and syncStorage runs: NewDriver, StorageChanged, then
\* StorageExists when nothing changed, then CreateStorage when runCreate.
\* failAt is "none" or the driver call that fails, driverErr its error.
syncStorage(changed, exists, failAt, driverErr) ==
    LET existsCalled == failAt # "newDriver" /\ ~changed
        existsErr == failAt = "storageExists"
        createCalled == /\ failAt \notin {"newDriver", "storageExists"}
                        /\ runCreate(changed, existsCalled /\ exists)
    IN
    /\ failAt = "storageExists" => existsCalled
    /\ failAt = "createStorage" => createCalled
    /\ gaStorage' = [driver |-> failAt # "newDriver",
                     changed |-> failAt # "newDriver" /\ changed,
                     existsCalled |-> existsCalled,
                     exists |-> existsCalled /\ ~existsErr /\ exists,
                     existsErr |-> existsErr,
                     createCalls |-> IF createCalled THEN 1 ELSE 0]
    /\ IF failAt # "none"
       THEN /\ gaFaults' = Append(gaFaults, Fault(failAt, driverErr))
            /\ ApplyReturn(IF driverErr \in {"ErrStorageNotConfigured", "ConfigurationError"}
                           THEN driverErr ELSE "error")
            /\ UNCHANGED gaIdx
       ELSE /\ gaPc' = "list"
            /\ UNCHANGED <<gaFaults, gaResult, gaIdx>>

ApplySyncStorage ==
    /\ gaPc = "idle"
    /\ gaPasses < MaxPasses
    /\ gaPasses' = gaPasses + 1
    /\ UNCHANGED <<gaLog, gaListed, gaAttempt, gaPrevOk>>
    /\ \E changed \in BOOLEAN, exists \in BOOLEAN,
          failAt \in {"none", "newDriver", "storageExists", "createStorage"},
          driverErr \in {"none", "ErrStorageNotConfigured", "ConfigurationError", "error"} :
          /\ (driverErr = "none") <=> (failAt = "none")
          /\ syncStorage(changed, exists, failAt, driverErr)
    /\ UNCHANGED gStore
    /\ UNCHANGED <<gaShared, gaStart, gaCrashed>>
    /\ UNCHANGED <<condVars, depVars, cr, rmVars, hVars, tVars, mVars, qVars>>

\* syncStorage has returned nil; g.list(cr) returns the generators or fails.
ApplyList ==
    /\ gaPc = "list"
    /\ \/ /\ gaPc' = "apply"
          /\ gaIdx' = 1
          /\ gaAttempt' = 1
          /\ UNCHANGED <<gaResult, gaFaults>>
       \/ /\ CanFail
          /\ gaFaults' = Append(gaFaults, Fault("list", "error"))
          /\ ApplyReturn("error")
          /\ UNCHANGED <<gaIdx, gaAttempt>>
    /\ gaStorage' = NoStorage
    /\ UNCHANGED <<gStore, gaListed, gaLog, gaPasses, gaPrevOk>>
    /\ UNCHANGED <<gaShared, gaStart, gaCrashed>>
    /\ UNCHANGED <<condVars, depVars, cr, rmVars, hVars, tVars, mVars, qVars>>

\* The generator is done with: the next one, or the end of the loop.
ApplyNextGenerator ==
    /\ gaIdx' = gaIdx + 1
    /\ gaAttempt' = 1
    /\ gaPc' = IF gaIdx < Len(list(cr)) THEN "apply" ELSE "gc"
    /\ UNCHANGED gaResult

\* The Update of an attempt after the first conflicts again: the writer that
\* made the last Update conflict has written once more.
conflictAgain(op, err) ==
    gaAttempt > 1 /\ op = "update" /\ err = "conflict"

\* The closure returned the error err of the API call op. gaFaults records a
\* run of conflicts of one generator once.
ApplyClosureFailed(gen, op, err) ==
    /\ gaFaults' = IF conflictAgain(op, err) THEN gaFaults
                   ELSE Append(gaFaults, Fault(op, err))
    /\ UNCHANGED <<gStore, gaLog>>
    /\ IF retryOnConflict(gaAttempt, closureError(op, err)) = "retry"
       THEN /\ gaAttempt' = gaAttempt + 1
            /\ UNCHANGED <<gaPc, gaIdx, gaResult>>
       ELSE /\ ApplyReturn("error")
            /\ UNCHANGED <<gaIdx, gaAttempt>>

\* The objects the closure holds in memory: the one Get returned, which the
\* lister's cache shares with every other reader, and its deep copy.
Addresses == {"shared", "copy"}

\* o.DeepCopyObject(): another object with the content of the one at from.
deepCopyObject(heap, from, to) == [heap EXCEPT ![to] = heap[from]]

\* gen.Update(o): the object at addr is changed in place into the object
\* to write.
mutatorUpdateAt(heap, addr, gen) ==
    [heap EXCEPT ![addr] = IF mutatorChanged(gen, @) THEN mutatorUpdate(gen, @) ELSE @]

\* An Update call that is handed the object Get returned.
updateArgument_Shared == "shared"

\* The object handed to gen.Update: o.DeepCopyObject().
updateArgument == "copy"

\* The memory of the closure after Get returned o and Update has run.
closureHeap(gen, o) ==
    LET got == [a \in Addresses |-> IF a = "shared" THEN o ELSE Absent]
        copied == deepCopyObject(got, "shared", "copy")
    IN mutatorUpdateAt(copied, updateArgument, gen)

\* A closure that falls through to Update after it created the object.
ApplyAttempt_NoUpdate(failing, err) ==
    LET gen == list(cr)[gaIdx]
        o == gStore[gen]
        op == IF ~o.exists THEN "create" ELSE "none"
    IN
    /\ failing \in {"none", "get", op}
    /\ failing = "get" => err = "error"
    /\ gaShared' = IF failing = "get" \/ op = "create" THEN Absent
                   ELSE closureHeap(gen, o)["shared"]
    /\ IF failing # "none"
       THEN ApplyClosureFailed(gen, failing, err)
       ELSE /\ gStore' = IF op = "create" THEN [gStore EXCEPT ![gen] = mutatorCreate(gen)]
                         ELSE gStore
            /\ gaLog' = IF op = "none" THEN gaLog ELSE Append(gaLog, [op |-> op, gen |-> gen])
            /\ ApplyNextGenerator
            /\ UNCHANGED gaFaults

ApplyAttempt_UpdateAfterCreate(failing, err) ==
    LET gen == list(cr)[gaIdx]
        o == gStore[gen]
        op == IF ~o.exists THEN "create"
              ELSE IF mutatorChanged(gen, o) THEN "update" ELSE "none"
    IN
    /\ failing \in {"none", "get", op}
    /\ failing = "get" => err = "error"
    /\ gaShared' = IF failing = "get" \/ op = "create" THEN Absent
                   ELSE closureHeap(gen, o)["shared"]
    /\ IF failing # "none"
       THEN ApplyClosureFailed(gen, failing, err)
       ELSE /\ gStore' = IF op = "create" THEN [gStore EXCEPT ![gen] = mutatorCreate(gen)]
                         ELSE IF op = "update"
                              THEN [gStore EXCEPT ![gen] = closureHeap(gen, o)[updateArgument]]
                         ELSE gStore
            /\ gaLog' = IF op = "none" THEN gaLog
                        ELSE IF op = "create"
                             THEN gaLog \o <<[op |-> "create", gen |-> gen],
                                             [op |-> "update", gen |-> gen]>>
                             ELSE Append(gaLog, [op |-> op, gen |-> gen])
            /\ ApplyNextGenerator
            /\ UNCHANGED gaFaults

\* One run of the closure of Apply for the generator at gaIdx: Get, then
\* Create when the object is not found, else Update of a deep copy. failing
\* is "none" or the API call that fails in this run, err its error.
ApplyAttempt(failing, err) ==
    LET gen == list(cr)[gaIdx]
        o == gStore[gen]
        op == IF ~o.exists THEN "create"
              ELSE IF mutatorChanged(gen, o) THEN "update" ELSE "none"
    IN
    /\ failing \in {"none", "get", op}
    /\ failing = "get" => err = "error"
    /\ gaShared' = IF failing = "get" \/ op = "create" THEN Absent
                   ELSE closureHeap(gen, o)["shared"]
    /\ IF failing # "none"
       THEN ApplyClosureFailed(gen, failing, err)
       ELSE /\ gStore' = IF op = "create" THEN [gStore EXCEPT ![gen] = mutatorCreate(gen)]
                         ELSE IF op = "update"
                              THEN [gStore EXCEPT ![gen] = closureHeap(gen, o)[updateArgument]]
                         ELSE gStore
            /\ gaLog' = IF op = "none" THEN gaLog ELSE Append(gaLog, [op |-> op, gen |-> gen])
            /\ ApplyNextGenerator
            /\ UNCHANGED gaFaults

\* An API call fails while faults are left, or the Update conflicts again.
ApplyGenerator ==
    /\ gaPc = "apply"
    /\ \E failing \in {"none", "get", "create", "update"}, err \in {"conflict", "error"} :
          /\ failing # "none" => CanFail \/ conflictAgain(failing, err)
          /\ failing = "none" => err = "error"
          /\ ApplyAttempt(failing, err)
    /\ UNCHANGED <<gaStorage, gaListed, gaPasses, gaPrevOk>>
    /\ UNCHANGED <<gaStart, gaCrashed>>
    /\ UNCHANGED <<condVars, depVars, cr, rmVars, hVars, tVars, mVars, qVars>>

\* removeObsoleteRoutes: the routes are listed, or making the route client or
\* the listing fails.
ApplyListRoutes ==
    /\ gaPc = "gc"
    /\ \/ /\ gaListed' = {k \in StoreKeys : k.kind = "Route" /\ gStore[k].exists}
          /\ gaPc' = "gcloop"
          /\ UNCHANGED <<gaResult, gaFaults>>
       \/ /\ CanFail
          /\ \E op \in {"newForConfig", "listRoutes"} :
                gaFaults' = Append(gaFaults, Fault(op, "error"))
          /\ ApplyReturn("error")
          /\ UNCHANGED gaListed
    /\ UNCHANGED <<gStore, gaIdx, gaAttempt, gaStorage, gaLog, gaPasses, gaPrevOk>>
    /\ UNCHANGED <<gaShared, gaStart, gaCrashed>>
    /\ UNCHANGED <<condVars, depVars, cr, rmVars, hVars, tVars, mVars, qVars>>

\* One round of the loop over the listed routes, in the order of the list:
\* a route that passes both tests is deleted, or its Delete fails.
ApplyRemoveRoute ==
    /\ gaPc = "gcloop"
    /\ \E k \in gaListed :
          /\ gaListed' = gaListed \ {k}
          /\ IF isObsoleteRoute(k.name, gStore[k], cr)
             THEN \/ /\ gStore' = [gStore EXCEPT ![k] = Absent]
                     /\ gaLog' = Append(gaLog, [op |-> "delete", gen |-> k])
                     /\ UNCHANGED <<gaPc, gaResult, gaFaults>>
                  \/ /\ CanFail
                     /\ gaFaults' = Append(gaFaults, Fault("delete", "error"))
                     /\ ApplyReturn("error")
                     /\ UNCHANGED <<gStore, gaLog>>
             ELSE UNCHANGED <<gStore, gaLog, gaPc, gaResult, gaFaults>>
    /\ UNCHANGED <<gaIdx, gaAttempt, gaStorage, gaPasses, gaPrevOk>>
    /\ UNCHANGED <<gaShared, gaStart, gaCrashed>>
    /\ UNCHANGED <<condVars, depVars, cr, rmVars, hVars, tVars, mVars, qVars>>

\* The loop over the routes is over: Apply returns nil.
ApplyDone ==
    /\ gaPc = "gcloop"
    /\ gaListed = {}
    /\ ApplyReturn("ok")
    /\ UNCHANGED <<gStore, gaIdx, gaAttempt, gaStorage, gaListed, gaLog, gaFaults, gaPasses, gaPrevOk>>
    /\ UNCHANGED <<gaShared, gaStart, gaCrashed>>
    /\ UNCHANGED <<condVars, depVars, cr, rmVars, hVars, tVars, mVars, qVars>>

\* The caller runs Apply again.
ApplyAgain ==
    /\ gaPc = "done"
    /\ gaPasses < MaxPasses
    /\ gaPc' = "idle"
    /\ gaResult' = "none"
    /\ gaFaults' = <<>>
    /\ gaStorage' = NoStorage
    /\ gaLog' = <<>>
    /\ gaIdx' = 0
    /\ gaAttempt' = 0
    /\ gaListed' = {}
    /\ gaPrevOk' = (gaResult = "ok")
    /\ UNCHANGED <<gStore, gaPasses>>
    /\ gaShared' = Absent
    /\ UNCHANGED <<gaStart, gaCrashed>>
    /\ UNCHANGED <<condVars, depVars, cr, rmVars, hVars, tVars, mVars, qVars>>

\* The process ends while Apply is under way, after any of its steps; the
\* operator starts again and calls Apply from scratch.
ApplyCrash ==
    /\ gaPc \in {"list", "apply", "gc", "gcloop"}
    /\ gaPasses < MaxPasses
    /\ gaCrashed' = TRUE
    /\ gaPc' = "idle"
    /\ gaResult' = "none"
    /\ gaFaults' = <<>>
    /\ gaStorage' = NoStorage
    /\ gaLog' = <<>>
    /\ gaIdx' = 0
    /\ gaAttempt' = 0
    /\ gaListed' = {}
    /\ gaPrevOk' = FALSE
    /\ gaShared' = Absent
    /\ UNCHANGED <<gStore, gaPasses, gaStart>>
    /\ UNCHANGED <<condVars, depVars, cr, rmVars, hVars, tVars, mVars, qVars>>

\* What one run of the closure without failure leaves of the cluster.
applyOne(store, gen) ==
    IF ~store[gen].exists THEN [store EXCEPT ![gen] = mutatorCreate(gen)]
    ELSE IF mutatorChanged(gen, store[gen]) THEN [store EXCEPT ![gen] = mutatorUpdate(gen, @)]
    ELSE store

\* What the loop over the generators leaves of the cluster when no call
\* fails, from generator i on.
RECURSIVE applyFrom(_, _, _)
applyFrom(store, gens, i) ==
    IF i > Len(gens) THEN store ELSE applyFrom(applyOne(store, gens[i]), gens, i + 1)

\* What removeObsoleteRoutes leaves of the cluster when no call fails.
removeObsoleteRoutes(store, c) ==
    [k \in StoreKeys |->
        IF k.kind = "Route" /\ store[k].exists /\ isObsoleteRoute(k.name, store[k], c)
        THEN Absent ELSE store[k]]

\* The cluster after one Apply call that runs to its end without failure.
applyUninterrupted(store, c) ==
    removeObsoleteRoutes(applyFrom(store, list(c), 1), c)

\* An ApplyClusterOperator that takes the first generator of the list.
clusterOperatorGenerator_FirstOfList(c) == list(c)[1]

\* newGeneratorClusterOperator(..., cr, nil): the one generator
\* ApplyClusterOperator works with.
clusterOperatorGenerator(c) == Mutator("ClusterOperator", "ClusterOperator")

\* ApplyClusterOperator is entered: configset.NewForConfig gives the client
\* or fails.
ClusterOperatorCall ==
    /\ gaPc = "idle"
    /\ gaPasses < MaxPasses
    /\ gaPasses' = gaPasses + 1
    /\ \/ /\ gaPc' = "co"
          /\ gaAttempt' = 1
          /\ UNCHANGED <<gaResult, gaFaults>>
       \/ /\ CanFail
          /\ gaFaults' = Append(gaFaults, Fault("newForConfig", "error"))
          /\ ApplyReturn("error")
          /\ UNCHANGED gaAttempt
    /\ UNCHANGED <<gStore, gaIdx, gaStorage, gaListed, gaLog, gaPrevOk>>
    /\ UNCHANGED <<gaShared, gaStart, gaCrashed>>
    /\ UNCHANGED <<condVars, depVars, cr, rmVars, hVars, tVars, mVars, qVars>>

\* One run of the closure of ApplyClusterOperator; failing is "none" or the
\* API call that fails, err its error.
clusterOperatorAttempt(failing, err) ==
    LET gen == clusterOperatorGenerator(cr)
        o == gStore[gen]
        op == IF ~o.exists THEN "create"
              ELSE IF mutatorChanged(gen, o) THEN "update" ELSE "none"
    IN
    /\ failing \in {"none", "get", op}
    /\ failing = "get" => err = "error"
    /\ gaShared' = IF failing = "get" \/ op = "create" THEN Absent
                   ELSE closureHeap(gen, o)["shared"]
    /\ IF failing # "none"
       THEN ApplyClosureFailed(gen, failing, err)
       ELSE /\ gStore' = IF op = "create" THEN [gStore EXCEPT ![gen] = mutatorCreate(gen)]
                         ELSE IF op = "update"
                              THEN [gStore EXCEPT ![gen] = closureHeap(gen, o)[updateArgument]]
                         ELSE gStore
            /\ gaLog' = IF op = "none" THEN gaLog ELSE Append(gaLog, [op |-> op, gen |-> gen])
            /\ gaPc' = "done"
            /\ gaResult' = "ok"
            /\ UNCHANGED <<gaFaults, gaIdx, gaAttempt>>

ClusterOperatorAttempt ==
    /\ gaPc = "co"
    /\ \E failing \in {"none", "get", "create", "update"}, err \in {"none", "error", "conflict"} :
          /\ (failing = "none") <=> (err = "none")
          /\ failing # "none" => CanFail \/ conflictAgain(failing, err)
          /\ clusterOperatorAttempt(failing, err)
    /\ UNCHANGED <<gaStorage, gaListed, gaPasses, gaPrevOk>>
    /\ UNCHANGED <<gaStart, gaCrashed>>
    /\ UNCHANGED <<condVars, depVars, cr, rmVars, hVars, tVars, mVars, qVars>>

\* The deployment whose state the cluster operator reports changes between
\* two calls: the stored cluster operator is no longer what is wanted.
ClusterOperatorOutdated ==
    /\ gaPc = "idle"
    /\ gaPasses > 0
    /\ gStore[Mutator("ClusterOperator", "ClusterOperator")] = Object("desired", FALSE)
    /\ gStore' = [gStore EXCEPT ![Mutator("ClusterOperator", "ClusterOperator")] = Object("stale", FALSE)]
    /\ UNCHANGED gaPassVars
    /\ UNCHANGED <<condVars, depVars, cr, rmVars, hVars, tVars, mVars, qVars>>

\* The routes of the cluster before the first pass: none, one made by the
\* operator in an earlier run, or one made by somebody else.
InitialRoutes == {Absent, Object("desired", TRUE), Object("stale", FALSE)}

RouteStoreKeys == {Mutator("Route", n) : n \in RouteKeys}

InitialStores ==
    {[k \in StoreKeys |-> IF k.kind = "Route" THEN rs[k] ELSE o] :
        rs \in [RouteStoreKeys -> InitialRoutes],
        o \in {Absent, Object("desired", FALSE), Object("stale", FALSE)}}

(***************************************************************************)
(* The deployment generators: part_002, lines 136-409, and generate.go,    *)
(* lines 253-409.                                                          *)
(***************************************************************************)
\* The storage backend variants of Spec.Storage.
Backends == {"filesystem", "azure", "gcs", "s3", "swift"}

\* Spec.Storage: the variants that are not nil, and whether the volume source
\* of the filesystem variant is a HostPath.
Storages ==
    {s \in [backends : SUBSET Backends, hostPath : BOOLEAN] :
        s.hostPath => "filesystem" \in s.backends}

NoStorageConfig == [backends |-> {}, hostPath |-> FALSE]

\* The counter storageConfigured after the five tests of the variants.
storageConfigured(s) == Cardinality(s.backends)

\* The storage part of PodTemplateSpec without the test of the host path.
podTemplateSpecStorage_HostPathAllowed(s) ==
    IF storageConfigured(s) = 1
    THEN "none"
    ELSE "it is not possible to initialize more than one storage backend at the same time"

\* The storage part of PodTemplateSpec accepting any number of backends but
\* zero.
podTemplateSpecStorage_AtLeastOne(s) ==
    IF "filesystem" \in s.backends /\ s.hostPath
    THEN "HostPath is not supported"
    ELSE IF storageConfigured(s) >= 1
         THEN "none"
         ELSE "it is not possible to initialize more than one storage backend at the same time"

\* The storage part of PodTemplateSpec: the error it returns, or "none".
podTemplateSpecStorage(s) ==
    IF "filesystem" \in s.backends /\ s.hostPath
    THEN "HostPath is not supported"
    ELSE IF storageConfigured(s) = 1
         THEN "none"
         ELSE "it is not possible to initialize more than one storage backend at the same time"

\* The storage part of GenerateDeploymentConfig: the error it returns, or
\* "none".
generateDeploymentConfigStorage(s) ==
    IF "filesystem" \in s.backends /\ s.hostPath
    THEN "HostPath is not supported"
    ELSE IF storageConfigured(s) # 1
         THEN "it is not possible to initialize more than one storage backend at the same time"
         ELSE "none"

(***************************************************************************)
(* Templates and their application: apply.go, and GenerateTemplates and    *)
(* CreateOrUpdateResources of part_001, lines 519-595.                     *)
(***************************************************************************)
\* The content of an object: what its fields say, and for the deployment the
\* digests of the secret and of the config map in its pod annotations.
Content(base, secret, configmap) ==
    [base |-> base, secret |-> secret, configmap |-> configmap]

Plain(base) == Content(base, 0, 0)

\* checksum(o): the sha256 digest of the JSON of o.
checksum(o) == [alg |-> "sha256", data |-> o]

\* The annotations of an object without checksumOperatorAnnotation.
NoAnnotation == [set |-> FALSE, dgst |-> checksum(Plain("stale"))]

Annotation(dgst) == [set |-> TRUE, dgst |-> dgst]

\* A stored object; resourceVersion rv grows with every write.
Stored(content, annotation, rv) ==
    [exists |-> TRUE, content |-> content, annotation |-> annotation, rv |-> rv]

NotStored == [exists |-> FALSE, content |-> Plain("stale"), annotation |-> NoAnnotation, rv |-> 0]

\* An object that somebody made without the operator's annotation.
Unmarked == Stored(Plain("stale"), NoAnnotation, 1)

SecretKey == Mutator("Secret", "Secret")

ConfigMapKey == Mutator("ConfigMap", "ConfigMap")

DeploymentKey == Mutator("Deployment", "Deployment")

\* The generators of GenerateTemplates before the routes.
templateGenerators ==
    << Mutator("ClusterRole", "ClusterRole"),
       Mutator("ClusterRoleBinding", "ClusterRoleBinding"),
       Mutator("ServiceAccount", "ServiceAccount"),
       ConfigMapKey,
       SecretKey,
       Mutator("Service", "Service"),
       Mutator("ImageConfig", "ImageConfig") >>

TemplateKeys ==
    {templateGenerators[i] : i \in DOMAIN templateGenerators}
    \cup RouteStoreKeys \cup {DeploymentKey}

Template(key, content) == [key |-> key, content |-> content]

\* getSecretChecksum and getConfigMapChecksum: the digest of the stored
\* object, which is another one after every write of the object.
storedChecksum(store, key) == store[key].rv

\* The error of PodTemplateSpec, or "none": the storage tests, then the
\* secret and the config map are fetched.
podTemplateSpecError(s, store) ==
    IF podTemplateSpecStorage(s) # "none" THEN podTemplateSpecStorage(s)
    ELSE IF ~store[SecretKey].exists THEN "secret not found"
    ELSE IF ~store[ConfigMapKey].exists THEN "configmap not found"
    ELSE "none"

\* GenerateTemplates: one template for each generator, then one for each
\* route, then the deployment.
GenerateTemplates(c, store) ==
    [i \in DOMAIN templateGenerators |-> Template(templateGenerators[i], Plain("desired"))]
    \o [i \in DOMAIN listRoutes(c) |-> Template(listRoutes(c)[i], Plain("desired"))]
    \o << Template(DeploymentKey,
                   Content("desired", storedChecksum(store, SecretKey),
                           storedChecksum(store, ConfigMapKey))) >>

\* The error the closure of ApplyTemplate returns when the call op fails
\* with err: the errors of Create and Update are returned as they are.
applyTemplateError(op, err) ==
    IF op \in {"create", "update"} THEN err ELSE "error"

\* sdk.Create(tmpl.Object): the object of the template is stored as it is.
sdkCreate(tmpl, old) == Stored(tmpl.content, NoAnnotation, old.rv + 1)

\* tmpl.Strategy.Apply(current, tmpl.Object) and the annotation set on its
\* result.
strategyApply(current, tmpl) ==
    [current EXCEPT !.content = tmpl.content,
                    !.annotation = Annotation(checksum(tmpl.content))]

\* Whether ApplyTemplate returns without a write: the annotation of the
\* current object is the digest of the template.
checksumMatches(current, tmpl) ==
    current.annotation.set /\ current.annotation.dgst = checksum(tmpl.content)

NoCurrent == [found |-> FALSE, obj |-> NotStored]

TemplateIdle ==
    /\ storage = NoStorageConfig
    /\ finalizer = FALSE
    /\ configState = NoStorageConfig
    /\ tStore = [k \in TemplateKeys |-> NotStored]
    /\ tTemplates = <<>>
    /\ tPc = "idle"
    /\ tIdx = 0
    /\ tAttempt = 0
    /\ tCurrent = NoCurrent
    /\ tResult = "none"
    /\ tModified = FALSE
    /\ tWrites = <<>>
    /\ tFaults = <<>>
    /\ tPasses = 0
    /\ tCleanPrev = FALSE

TemplateCanFail == Len(tFaults) < MaxFaults

TemplateReturn(err) ==
    /\ tPc' = "done"
    /\ tResult' = err

\* The steps of CreateOrUpdateResources before the loop, in their order,
\* and the error each one is reported with.
PrepareSteps ==
    << [step |-> "verifyResource", err |-> "unable to complete resource"],
       [step |-> "GetConfigState", err |-> "unable to get previous config state"],
       [step |-> "NewDriver", err |-> "unable to create storage driver"],
       [step |-> "ValidateConfiguration", err |-> "bad custom resource"],
       [step |-> "generator", err |-> "unable to generate templates"] >>

\* The errors a step can return: the storage driver returns
\* ErrStorageNotConfigured, a ConfigurationError or another error.
prepareErrors(failing) ==
    IF failing = 0 THEN {"none"}
    ELSE IF PrepareSteps[failing].step \in {"NewDriver", "ValidateConfiguration"}
    THEN {"ErrStorageNotConfigured", "ConfigurationError", "error"}
    ELSE {"error"}

\* A CreateOrUpdateResources that goes on to the templates when
\* ValidateConfiguration returns an error.
createOrUpdateResourcesPrepare_IgnoreValidation(failing, err) ==
    LET generateErr == podTemplateSpecError(storage, tStore)
        ignored == failing # 0 /\ PrepareSteps[failing].step = "ValidateConfiguration"
    IN
    /\ finalizer' = TRUE
    /\ tModified' = ~finalizer
    /\ IF failing # 0 /\ ~ignored
       THEN /\ tFaults' = Append(tFaults, Fault(PrepareSteps[failing].step, err))
            /\ TemplateReturn(PrepareSteps[failing].err)
            /\ UNCHANGED <<tTemplates, tIdx, tAttempt>>
       ELSE IF generateErr # "none"
       THEN /\ TemplateReturn("unable to generate templates")
            /\ UNCHANGED <<tTemplates, tIdx, tAttempt, tFaults>>
       ELSE /\ tTemplates' = GenerateTemplates(cr, tStore)
            /\ tPc' = "get"
            /\ tIdx' = 1
            /\ tAttempt' = 1
            /\ tFaults' = IF ignored
                          THEN Append(tFaults, Fault(PrepareSteps[failing].step, err))
                          ELSE tFaults
            /\ UNCHANGED tResult

\* CreateOrUpdateResources up to the loop over the templates: the finalizer
\* is appended, the resource verified, the previous ConfigState read, the
\* storage driver made and asked to validate, the templates generated.
\* failing is 0 or the step that fails for a reason outside the model, err
\* the error the step returns; every error is returned in a new error made
\* by fmt.Errorf.
createOrUpdateResourcesPrepare(failing, err) ==
    LET generateErr == podTemplateSpecError(storage, tStore) IN
    /\ finalizer' = TRUE
    /\ tModified' = ~finalizer
    /\ IF failing # 0
       THEN /\ tFaults' = Append(tFaults, Fault(PrepareSteps[failing].step, err))
            /\ TemplateReturn(PrepareSteps[failing].err)
            /\ UNCHANGED <<tTemplates, tIdx, tAttempt>>
       ELSE IF generateErr # "none"
       THEN /\ TemplateReturn("unable to generate templates")
            /\ UNCHANGED <<tTemplates, tIdx, tAttempt, tFaults>>
       ELSE /\ tTemplates' = GenerateTemplates(cr, tStore)
            /\ tPc' = "get"
            /\ tIdx' = 1
            /\ tAttempt' = 1
            /\ UNCHANGED <<tResult, tFaults>>

\* One call of CreateOrUpdateResources; the calls are counted up to n.
CreateOrUpdateResourcesPrepareCounted(n) ==
    /\ tPc = "idle"
    /\ tPasses' = IF tPasses < n THEN tPasses + 1 ELSE tPasses
    /\ \E failing \in {0} \cup DOMAIN PrepareSteps : \E err \in prepareErrors(failing) :
          /\ failing # 0 => TemplateCanFail
          /\ createOrUpdateResourcesPrepare(failing, err)
    /\ UNCHANGED <<storage, configState, tStore, tCurrent, tWrites, tCleanPrev>>
    /\ UNCHANGED <<condVars, depVars, cr, rmVars, hVars, gaVars, mVars, qVars>>

CreateOrUpdateResourcesPrepare ==
    /\ tPasses < MaxPasses
    /\ CreateOrUpdateResourcesPrepareCounted(MaxPasses)

\* ApplyTemplate returned err to the loop of CreateOrUpdateResources, or the
\* closure is run again.
applyTemplateFailed(op, err) ==
    /\ tFaults' = Append(tFaults, Fault(op, err))
    /\ IF retryOnConflict(tAttempt, applyTemplateError(op, err)) = "retry"
       THEN /\ tAttempt' = tAttempt + 1
            /\ tPc' = "get"
            /\ UNCHANGED <<tIdx, tResult>>
       ELSE /\ TemplateReturn("unable to apply objects")
            /\ UNCHANGED <<tIdx, tAttempt>>

\* ApplyTemplate returned nil: the next template, or the end of the loop.
applyTemplateDone ==
    /\ tIdx' = tIdx + 1
    /\ tAttempt' = 1
    /\ tPc' = IF tIdx < Len(tTemplates) THEN "get" ELSE "finish"
    /\ UNCHANGED <<tResult, tFaults>>

\* The closure of ApplyTemplate, first half: sdk.Get(current).
ApplyTemplateGet ==
    /\ tPc = "get"
    /\ \/ /\ tCurrent' = [found |-> tStore[tTemplates[tIdx].key].exists,
                          obj |-> tStore[tTemplates[tIdx].key]]
          /\ tPc' = "write"
          /\ UNCHANGED <<tIdx, tAttempt, tResult, tFaults>>
       \/ /\ TemplateCanFail
          /\ applyTemplateFailed("get", "error")
          /\ UNCHANGED tCurrent
    /\ UNCHANGED <<storage, finalizer, configState, tStore, tTemplates, tModified,
                   tWrites, tPasses, tCleanPrev>>
    /\ UNCHANGED <<condVars, depVars, cr, rmVars, hVars, gaVars, mVars, qVars>>

\* The closure of ApplyTemplate, second half: Create when the object was not
\* found, nothing when the checksum matches, else Strategy.Apply and Update.
\* failing is "none" or the call that fails, err its error.
applyTemplateWrite(failing, err) ==
    LET tmpl == tTemplates[tIdx]
        now_ == tStore[tmpl.key]
        op == IF ~tCurrent.found THEN "create"
              ELSE IF checksumMatches(tCurrent.obj, tmpl) THEN "none" ELSE "update"
        updated == strategyApply(tCurrent.obj, tmpl)
        refused == IF op = "create" /\ now_.exists THEN "error"
                   ELSE IF op = "update" /\ ~now_.exists THEN "error"
                   ELSE IF op = "update" /\ now_.rv # updated.rv THEN "conflict"
                   ELSE "none"
    IN
    /\ failing \in {"none", op} \cup (IF op = "update" THEN {"strategy"} ELSE {})
    /\ failing = "strategy" => err = "error"
    /\ refused # "none" => failing = "none"
    /\ IF failing # "none" \/ refused # "none"
       THEN /\ applyTemplateFailed(IF failing # "none" THEN failing ELSE op,
                                   IF failing # "none" THEN err ELSE refused)
            /\ tModified' = IF failing = "strategy" THEN tModified ELSE FALSE
            /\ UNCHANGED <<tStore, tWrites>>
       ELSE /\ applyTemplateDone
            /\ tStore' = IF op = "create"
                            THEN [tStore EXCEPT ![tmpl.key] = sdkCreate(tmpl, now_)]
                         ELSE IF op = "update"
                            THEN [tStore EXCEPT ![tmpl.key] = [updated EXCEPT !.rv = @ + 1]]
                         ELSE tStore
            /\ tModified' = IF op = "none" THEN tModified ELSE TRUE
            /\ tWrites' = IF op = "none" THEN tWrites
                          ELSE Append(tWrites, [op |-> op, key |-> tmpl.key])

ApplyTemplateWrite ==
    /\ tPc = "write"
    /\ \E failing \in {"none", "create", "update", "strategy"}, err \in {"conflict", "error"} :
          /\ failing # "none" => TemplateCanFail
          /\ failing = "none" => err = "error"
          /\ applyTemplateWrite(failing, err)
    /\ UNCHANGED <<storage, finalizer, configState, tTemplates, tCurrent, tPasses, tCleanPrev>>
    /\ UNCHANGED <<condVars, depVars, cr, rmVars, hVars, gaVars, mVars, qVars>>

\* A SetConfigState that is called whatever syncRoutes returned and that
\* writes before it fails.
configStateAfter_Always(old, s, err) ==
    s

\* The persisted snapshot when CreateOrUpdateResources returns after the
\* loop: err is "none" or the error of syncRoutes or of SetConfigState.
configStateAfter(old, s, err) ==
    IF err = "none" THEN s ELSE old

\* CreateOrUpdateResources after the loop: syncRoutes, then SetConfigState
\* writes the snapshot of the storage configuration.
CreateOrUpdateResourcesFinish ==
    /\ tPc = "finish"
    /\ \/ /\ configState' = configStateAfter(configState, storage, "none")
          /\ TemplateReturn("ok")
          /\ UNCHANGED tFaults
       \/ /\ TemplateCanFail
          /\ \E f \in {[step |-> "syncRoutes", err |-> "unable to sync routes"],
                       [step |-> "SetConfigState", err |-> "unable to write current config state"]} :
                /\ tFaults' = Append(tFaults, Fault(f.step, "error"))
                /\ TemplateReturn(f.err)
                /\ configState' = configStateAfter(configState, storage, f.err)
    /\ UNCHANGED <<storage, finalizer, tStore, tTemplates, tIdx, tAttempt, tCurrent,
                   tModified, tWrites, tPasses, tCleanPrev>>
    /\ UNCHANGED <<condVars, depVars, cr, rmVars, hVars, gaVars, mVars, qVars>>

\* The caller runs CreateOrUpdateResources again on the same resource.
CreateOrUpdateResourcesCalledAgain ==
    /\ tPc = "done"
    /\ tPc' = "idle"
    /\ tCleanPrev' = (tResult = "ok")
    /\ tResult' = "none"
    /\ tTemplates' = <<>>
    /\ tIdx' = 0
    /\ tAttempt' = 0
    /\ tCurrent' = NoCurrent
    /\ tModified' = FALSE
    /\ tWrites' = <<>>
    /\ tFaults' = <<>>
    /\ UNCHANGED <<storage, finalizer, configState, tStore, tPasses>>
    /\ UNCHANGED <<condVars, depVars, cr, rmVars, hVars, gaVars, mVars, qVars>>

CreateOrUpdateResourcesAgain ==
    /\ tPasses < MaxPasses
    /\ CreateOrUpdateResourcesCalledAgain

\* The cluster before the first pass: the secret and the config map are
\* there or not, and so are the other objects.
InitialTemplateStores ==
    {[k \in TemplateKeys |-> IF k \in {SecretKey, ConfigMapKey} THEN sc ELSE o] :
        sc \in {NotStored, Unmarked}, o \in {NotStored, Unmarked}}

(***************************************************************************)
(* ApplyService and ApplyDeploymentConfig: apply.go, lines 27-33 and       *)
(* 103-185.                                                                *)
(***************************************************************************)
MergeKinds == {"Service", "DeploymentConfig"}

checksumOperatorAnnotation == "checksum"

\* The values the generator gives the spec fields it fills in.
SpecVersions == {"v1", "v2"}

\* An ObjectMeta: labels and annotations are maps, kept as sets of
\* <<key, value>> pairs; resourceVersion is set by the cluster.
ObjectMeta(name, labels, annotations, ownerReferences, rv) ==
    [name |-> name, namespace |-> "openshift-image-registry", labels |-> labels,
     annotations |-> annotations, ownerReferences |-> ownerReferences,
     resourceVersion |-> rv]

\* The spec of a service or of a deployment config: managed stands for the
\* fields the generator fills in (Selector, Type and Ports of a service),
\* other for the fields it leaves empty and somebody else may set.
ObjectSpec(managed, other) == [managed |-> managed, other |-> other]

\* expect as the generator hands it to the apply function.
expectObject(kind, v) ==
    [exists |-> TRUE,
     meta |-> ObjectMeta(kind, {<<"docker-registry", "default">>}, {}, {"Config"}, 0),
     spec |-> ObjectSpec(v, "unset")]

MergeNotFound ==
    [exists |-> FALSE, meta |-> ObjectMeta("", {}, {}, {}, 0), spec |-> ObjectSpec("v1", "unset")]

\* A merge that keeps the entries of existing that required does not name.
mergeObjectMeta_KeepOthers(existing, required) ==
    [existing EXCEPT !.name = required.name,
                     !.namespace = required.namespace,
                     !.labels = {e \in @ : \A r \in required.labels : r[1] # e[1]}
                                \cup required.labels,
                     !.annotations = {e \in @ : \A r \in required.annotations : r[1] # e[1]}
                                     \cup required.annotations,
                     !.ownerReferences = @ \cup required.ownerReferences]

\* mergeObjectMeta(existing, required): five fields of existing are assigned
\* from required.
mergeObjectMeta(existing, required) ==
    [existing EXCEPT !.name = required.name,
                     !.namespace = required.namespace,
                     !.labels = required.labels,
                     !.annotations = required.annotations,
                     !.ownerReferences = required.ownerReferences]

\* expect.ObjectMeta.Annotations[checksumOperatorAnnotation] = dgst
setChecksumAnnotation(meta, dgst) ==
    [meta EXCEPT !.annotations = {e \in @ : e[1] # checksumOperatorAnnotation}
                                 \cup {<<checksumOperatorAnnotation, dgst>>}]

\* A test that never finds a match.
mergeChecksumMatches_Never(current, dgst) ==
    FALSE

\* curdgst, ok := current.ObjectMeta.Annotations[...]; ok && dgst == curdgst
mergeChecksumMatches(current, dgst) ==
    <<checksumOperatorAnnotation, dgst>> \in current.meta.annotations

\* The object ApplyService or ApplyDeploymentConfig hands to sdk.Update:
\* current after mergeObjectMeta and the assignments to its Spec.
mergedObject(kind, current, expect, dgst) ==
    LET meta == mergeObjectMeta(current.meta, setChecksumAnnotation(expect.meta, dgst)) IN
    IF kind = "Service"
    THEN [current EXCEPT !.meta = meta, !.spec.managed = expect.spec.managed]
    ELSE [current EXCEPT !.meta = meta, !.spec = expect.spec]

\* What the cluster stores for a written object: a new resourceVersion.
storedObject(o, rv) == [o EXCEPT !.exists = TRUE, !.meta.resourceVersion = rv + 1]

MergeIdle ==
    /\ mKind = "none"
    /\ mStore = MergeNotFound
    /\ mExpect = MergeNotFound
    /\ mPc = "idle"
    /\ mAttempt = 0
    /\ mCurrent = MergeNotFound
    /\ mModified = FALSE
    /\ mResult = "none"
    /\ mWrites = <<>>
    /\ mFaults = 0
    /\ mCalls = 0

MergeCanFail == mFaults < MaxFaults

\* ApplyService(expect, modified) or ApplyDeploymentConfig(expect, modified)
\* is called: the caller's flag has any value.
MergeCall ==
    /\ mPc = "idle"
    /\ mCalls < MaxPasses
    /\ mCalls' = mCalls + 1
    /\ \E v \in SpecVersions : mExpect' = expectObject(mKind, v)
    /\ mModified' \in BOOLEAN
    /\ mPc' = "get"
    /\ mAttempt' = 1
    /\ UNCHANGED <<mKind, mStore, mCurrent, mResult, mWrites, mFaults>>
    /\ UNCHANGED <<condVars, depVars, cr, rmVars, hVars, gaVars, tVars, qVars>>

\* A retry that goes back to the write with the object of the attempt before.
mergeClosureFailed_NoRefetch(err) ==
    /\ IF retryOnConflict(mAttempt, err) = "retry"
       THEN /\ mAttempt' = mAttempt + 1
            /\ mPc' = "write"
            /\ UNCHANGED mResult
       ELSE /\ mPc' = "done"
            /\ mResult' = err
            /\ UNCHANGED mAttempt

\* The closure returned err: RetryOnConflict runs it again or returns.
mergeClosureFailed(err) ==
    /\ IF retryOnConflict(mAttempt, err) = "retry"
       THEN /\ mAttempt' = mAttempt + 1
            /\ mPc' = "get"
            /\ UNCHANGED mResult
       ELSE /\ mPc' = "done"
            /\ mResult' = err
            /\ UNCHANGED mAttempt

\* The closure, first half: sdk.Get(current). An error that is not
\* not-found is returned wrapped.
MergeGet ==
    /\ mPc = "get"
    /\ \/ /\ mCurrent' = mStore
          /\ mPc' = "write"
          /\ UNCHANGED <<mAttempt, mResult, mFaults>>
       \/ /\ MergeCanFail
          /\ mFaults' = mFaults + 1
          /\ mergeClosureFailed("error")
          /\ UNCHANGED mCurrent
    /\ UNCHANGED <<mKind, mStore, mExpect, mModified, mWrites, mCalls>>
    /\ UNCHANGED <<condVars, depVars, cr, rmVars, hVars, gaVars, tVars, qVars>>

\* The closure, second half: sdk.Create(expect) when the object was not
\* found, nothing when the checksum matches, else the merge and sdk.Update.
\* failed says whether the API call fails for a reason outside the model;
\* the cluster refuses a Create of an object that exists and an Update with
\* a resourceVersion that is not the stored one.
mergeWrite(failed, err) ==
    LET dgst == checksum(mExpect)
        op == IF ~mCurrent.exists THEN "create"
              ELSE IF mergeChecksumMatches(mCurrent, dgst) THEN "none" ELSE "update"
        updated == mergedObject(mKind, mCurrent, mExpect, dgst)
        refused == IF op = "create" /\ mStore.exists THEN "error"
                   ELSE IF op = "update" /\ ~mStore.exists THEN "error"
                   ELSE IF op = "update"
                           /\ mStore.meta.resourceVersion # updated.meta.resourceVersion
                        THEN "conflict"
                   ELSE "none"
        apiErr == IF failed THEN err ELSE refused
    IN
    /\ failed => op # "none"
    /\ IF op = "none"
       THEN /\ mPc' = "done"
            /\ mResult' = "ok"
            /\ UNCHANGED <<mStore, mModified, mWrites, mAttempt, mFaults>>
       ELSE IF apiErr # "none"
       THEN /\ mModified' = FALSE
            /\ mFaults' = IF failed THEN mFaults + 1 ELSE mFaults
            /\ mergeClosureFailed(apiErr)
            /\ UNCHANGED <<mStore, mWrites>>
       ELSE /\ mStore' = IF op = "create"
                         THEN storedObject(mExpect, mStore.meta.resourceVersion)
                         ELSE storedObject(updated, mStore.meta.resourceVersion)
            /\ mModified' = TRUE
            /\ mWrites' = Append(mWrites, op)
            /\ mPc' = "done"
            /\ mResult' = "ok"
            /\ UNCHANGED <<mAttempt, mFaults>>

MergeWrite ==
    /\ mPc = "write"
    /\ \E failed \in BOOLEAN, err \in {"conflict", "error"} :
          /\ failed => MergeCanFail
          /\ ~failed => err = "error"
          /\ mergeWrite(failed, err)
    /\ UNCHANGED <<mKind, mExpect, mCurrent, mCalls>>
    /\ UNCHANGED <<condVars, depVars, cr, rmVars, hVars, gaVars, tVars, qVars>>

\* The fields another actor can set on the object: a label, an annotation,
\* an owner reference, a spec field the generator leaves empty, and the
\* spec fields the generator fills in.
OtherFields == {"label", "annotation", "ownerReference", "spec.other", "spec.managed"}

otherWrite(o, field) ==
    CASE field = "label" -> [o EXCEPT !.meta.labels = @ \cup {<<"team", "other">>}]
      [] field = "annotation" -> [o EXCEPT !.meta.annotations = @ \cup {<<"note", "other">>}]
      [] field = "ownerReference" -> [o EXCEPT !.meta.ownerReferences = @ \cup {"Other"}]
      [] field = "spec.other" -> [o EXCEPT !.spec.other = "set by other"]
      [] field = "spec.managed" -> [o EXCEPT !.spec.managed = "set by other"]

\* Another actor writes the object while no call is between its Get and its
\* write, or between them.
MergeOtherWrite ==
    /\ mStore.exists
    /\ mPc \in {"idle", "write"}
    /\ \E field \in OtherFields :
          /\ otherWrite(mStore, field) # mStore
          /\ mStore' = storedObject(otherWrite(mStore, field), mStore.meta.resourceVersion)
    /\ UNCHANGED <<mKind, mExpect, mPc, mAttempt, mCurrent, mModified, mResult, mWrites,
                   mFaults, mCalls>>
    /\ UNCHANGED <<condVars, depVars, cr, rmVars, hVars, gaVars, tVars, qVars>>

\* The caller is back from the call and may call again.
MergeReturn ==
    /\ mPc = "done"
    /\ mCalls < MaxPasses
    /\ mPc' = "idle"
    /\ mResult' = "none"
    /\ mAttempt' = 0
    /\ mCurrent' = MergeNotFound
    /\ mWrites' = <<>>
    /\ mFaults' = 0
    /\ UNCHANGED <<mKind, mStore, mExpect, mModified, mCalls>>
    /\ UNCHANGED <<condVars, depVars, cr, rmVars, hVars, gaVars, tVars, qVars>>

(***************************************************************************)
(* The event handler: part_001, NewHandler (34-77) and Handle (288-478).   *)
(***************************************************************************)
\* The object types Handle switches on (part_001:298-429).
EventKinds ==
    {"ClusterRole", "ClusterRoleBinding", "Service", "ServiceAccount", "ConfigMap",
     "Secret", "Route", "Deployment", "DeploymentConfig", "ImageRegistry"}

ManagementStates == {"Managed", "Unmanaged", "Removed"}

\* An event: the object's type, whether it was deleted, whether the object
\* has a controller owner reference to a Config, whether a Config of that
\* name exists, the management state of the Config the object is or refers
\* to, and whether the object is controlled by that Config (the reference
\* holds its UID).
Events ==
    {e \in [kind : EventKinds, deleted : BOOLEAN, ownerRef : BOOLEAN, found : BOOLEAN,
            managementState : ManagementStates, controlled : BOOLEAN] :
        /\ e.controlled => e.ownerRef /\ e.found
        /\ e.kind = "ImageRegistry" => e.found /\ ~e.ownerRef}

NoEvent ==
    [kind |-> "none", deleted |-> FALSE, ownerRef |-> FALSE, found |-> FALSE,
     managementState |-> "Unmanaged", controlled |-> FALSE]

\* getImageRegistryForResource(o): TRUE when it returns a Config, FALSE when
\* it returns nil.
getImageRegistryForResource(event) ==
    /\ event.ownerRef
    /\ event.found
    /\ event.managementState = "Managed"

\* The filter of reCreateByEvent and of the Route, Deployment and
\* DeploymentConfig cases of Handle: TRUE when the event goes on to be
\* handled.
controlledByFound(event) ==
    getImageRegistryForResource(event) /\ event.controlled

\* What the statements of Handle for the event can write, were they reached:
\* objects by ApplyTemplate or RemoveResources, the status of the Config by
\* sdk.Update when statusChanged was set.
handleWrites(event) ==
    IF event.kind = "ImageRegistry"
    THEN IF event.managementState = "Unmanaged" /\ ~event.deleted THEN {}
         ELSE {"object", "status"}
    ELSE IF event.kind = "Service"
    THEN IF controlledByFound(event) THEN {"object", "status"}
         ELSE IF getImageRegistryForResource(event) THEN {"status"}
         ELSE {}
    ELSE IF controlledByFound(event) THEN {"object", "status"} ELSE {}

HandlerIdle ==
    /\ hCreated = FALSE
    /\ hBootstrapped = FALSE
    /\ hEvent = NoEvent
    /\ hHandled = 0
    /\ hPasses = 0
    /\ hReturn = "none"
    /\ hWrites = {}

\* NewHandler fills the parameters, builds the handler and returns it at
\* line 65; the Bootstrap and clusterStatus.Create calls that follow the
\* return statement are never executed.
NewHandler ==
    /\ ~hCreated
    /\ hCreated' = TRUE
    /\ UNCHANGED <<hBootstrapped, hEvent, hHandled, hPasses, hReturn, hWrites>>
    /\ UNCHANGED <<condVars, depVars, cr, rmVars, gaVars, tVars, mVars, qVars>>

\* A Handle that goes past line 289 and runs the statements that follow.
Handle_PastReturn(event) ==
    /\ hCreated
    /\ hHandled < MaxEvents
    /\ hEvent' = event
    /\ hHandled' = hHandled + 1
    /\ hReturn' = "nil"
    /\ \E written \in SUBSET handleWrites(event) : hWrites' = hWrites \cup written
    /\ UNCHANGED <<hCreated, hBootstrapped, hPasses>>
    /\ UNCHANGED <<condVars, depVars, cr, rmVars, gaVars, tVars, mVars, qVars>>

\* Handle returns nil at line 289, before the event is looked at: no pass is
\* run, no object and no condition is written.
Handle(event) ==
    /\ hCreated
    /\ hHandled < MaxEvents
    /\ hEvent' = event
    /\ hHandled' = hHandled + 1
    /\ hReturn' = "nil"
    /\ UNCHANGED <<hCreated, hBootstrapped, hPasses, hWrites>>
    /\ UNCHANGED <<condVars, depVars, cr, rmVars, gaVars, tVars, mVars, qVars>>

HandleEvent == \E event \in Events : Handle(event)

(***************************************************************************)
(* PodTemplateSpec, the request limits: part_002, lines 285-317.           *)
(***************************************************************************)
Limits == (0 - MaxLimit) .. MaxLimit

WaitDurations == {"0s", "30s"}

Directions == {"Read", "Write"}

\* cr.Spec.Requests.Read and cr.Spec.Requests.Write.
RequestLimits == [maxRunning : Limits, maxInQueue : Limits, maxWaitInQueue : WaitDurations]

Requests == [Read : RequestLimits, Write : RequestLimits]

NoRequests ==
    [d \in Directions |-> [maxRunning |-> 0, maxInQueue |-> 0, maxWaitInQueue |-> "0s"]]

Digit(d) ==
    CASE d = 0 -> "0" [] d = 1 -> "1" [] d = 2 -> "2" [] d = 3 -> "3" [] d = 4 -> "4"
      [] d = 5 -> "5" [] d = 6 -> "6" [] d = 7 -> "7" [] d = 8 -> "8" [] d = 9 -> "9"

RECURSIVE formatNat(_)
formatNat(n) ==
    IF n < 10 THEN Digit(n) ELSE formatNat(n \div 10) \o Digit(n % 10)

\* fmt.Sprintf("%d", n)
SprintfD(n) ==
    IF n < 0 THEN "-" \o formatNat(0 - n) ELSE formatNat(n)

EnvVar(name, value) == [name |-> name, value |-> value]

EnvPrefix(dir) ==
    IF dir = "Read" THEN "REGISTRY_OPENSHIFT_REQUESTS_READ_"
    ELSE "REGISTRY_OPENSHIFT_REQUESTS_WRITE_"

\* A test that asks for both limits to be set.
requestsLimited_Both(r) ==
    r.maxRunning # 0 /\ r.maxInQueue # 0

\* The test that guards the block of one direction.
requestsLimited(r) ==
    r.maxRunning # 0 \/ r.maxInQueue # 0

\* The block of one direction: the error it returns, or the variables it
\* appends to env.
requestsEnv(dir, r) ==
    IF requestsLimited(r)
    THEN IF r.maxRunning < 0
         THEN [err |-> "Requests." \o dir \o ".MaxRunning must be positive number",
               env |-> <<>>]
         ELSE IF r.maxInQueue < 0
         THEN [err |-> "Requests." \o dir \o ".MaxInQueue must be positive number",
               env |-> <<>>]
         ELSE [err |-> "none",
               env |-> << EnvVar(EnvPrefix(dir) \o "MAXRUNNING", SprintfD(r.maxRunning)),
                          EnvVar(EnvPrefix(dir) \o "MAXINQUEUE", SprintfD(r.maxInQueue)),
                          EnvVar(EnvPrefix(dir) \o "MAXWAITINQUEUE", r.maxWaitInQueue) >>]
    ELSE [err |-> "none", env |-> <<>>]

NoPodTemplate == [called |-> FALSE, err |-> "none", template |-> FALSE, env |-> <<>>]

\* PodTemplateSpec up to line 317: the storage tests, the block of Read,
\* the block of Write. template tells whether the function went on to
\* build the pod template, env holds the variables the two blocks appended.
podTemplateSpecRequests(s, req) ==
    LET rd == requestsEnv("Read", req.Read)
        wr == requestsEnv("Write", req.Write)
    IN IF podTemplateSpecStorage(s) # "none"
       THEN [called |-> TRUE, err |-> podTemplateSpecStorage(s), template |-> FALSE, env |-> <<>>]
       ELSE IF rd.err # "none"
       THEN [called |-> TRUE, err |-> rd.err, template |-> FALSE, env |-> <<>>]
       ELSE IF wr.err # "none"
       THEN [called |-> TRUE, err |-> wr.err, template |-> FALSE, env |-> <<>>]
       ELSE [called |-> TRUE, err |-> "none", template |-> TRUE, env |-> rd.env \o wr.env]

RequestsIdle ==
    /\ requests = NoRequests
    /\ qOut = NoPodTemplate

PodTemplateSpecRequests ==
    /\ ~qOut.called
    /\ qOut' = podTemplateSpecRequests(storage, requests)
    /\ UNCHANGED requests
    /\ UNCHANGED <<condVars, depVars, cr, rmVars, hVars, gaVars, tVars, mVars>>

InitHandler ==
    /\ CondIdle
    /\ DeployIdle
    /\ ConfigIdle
    /\ RemoveIdle
    /\ HandlerIdle
    /\ MergeIdle
    /\ RequestsIdle
    /\ ApplyIdle
    /\ TemplateIdle

NextHandler ==
    \/ NewHandler
    \/ HandleEvent

SpecHandler == InitHandler /\ [][NextHandler]_vars

(***************************************************************************)
(* SpecRemove: one Generator.Remove call for every Config.                 *)
(***************************************************************************)
\* The cluster before Remove: nothing was created yet, or every object the
\* generators stand for was.
RemoveStores ==
    {[k \in StoreKeys |-> Absent], [k \in StoreKeys |-> mutatorCreate(k)]}

InitRemove ==
    /\ CondIdle
    /\ DeployIdle
    /\ cr \in Configs
    /\ RemoveIdle
    /\ HandlerIdle
    /\ MergeIdle
    /\ RequestsIdle
    /\ gStore \in RemoveStores
    /\ ApplyPassIdle
    /\ TemplateIdle

NextRemove ==
    \/ RemoveList
    \/ RemoveDelete
    \/ RemoveDriver
    \/ RemovePoll

SpecRemove == InitRemove /\ [][NextRemove]_vars

\* Remove of a Config that declares no routes of its own.
InitRemoveFair ==
    /\ InitRemove
    /\ cr.routes = <<>>

\* The poll loop runs on the caller's goroutine and every RemoveStorage call
\* returns: a step that can be taken is taken.
SpecRemoveFair == InitRemoveFair /\ [][NextRemove]_vars /\ WF_vars(NextRemove)

(***************************************************************************)
(* SpecApply: Generator.Apply passes for every Config and cluster.         *)
(***************************************************************************)
InitApply ==
    /\ CondIdle
    /\ DeployIdle
    /\ cr \in Configs
    /\ RemoveIdle
    /\ HandlerIdle
    /\ MergeIdle
    /\ RequestsIdle
    /\ TemplateIdle
    /\ gStore \in InitialStores
    /\ gaPc = "idle"
    /\ gaIdx = 0
    /\ gaAttempt = 0
    /\ gaResult = "none"
    /\ gaStorage = NoStorage
    /\ gaListed = {}
    /\ gaLog = <<>>
    /\ gaFaults = <<>>
    /\ gaPasses = 0
    /\ gaPrevOk = FALSE
    /\ gaShared = Absent
    /\ gaStart = NoStart
    /\ gaCrashed = FALSE

NextApply ==
    \/ ApplySyncStorage
    \/ ApplyList
    \/ ApplyGenerator
    \/ ApplyListRoutes
    \/ ApplyRemoveRoute
    \/ ApplyDone
    \/ ApplyAgain

SpecApply == InitApply /\ [][NextApply]_vars

\* Apply calls that the end of the process may cut short, on a cluster where
\* no call to the API fails and nobody else writes.
CrashApplyStep ==
    /\ NextApply
    /\ gaFaults' = <<>>

NextCrash ==
    \/ CrashApplyStep
    \/ ApplyCrash

InitCrash ==
    /\ CondIdle
    /\ DeployIdle
    /\ cr \in Configs
    /\ RemoveIdle
    /\ HandlerIdle
    /\ MergeIdle
    /\ RequestsIdle
    /\ TemplateIdle
    /\ gStore \in InitialStores
    /\ gaPc = "idle"
    /\ gaIdx = 0
    /\ gaAttempt = 0
    /\ gaResult = "none"
    /\ gaStorage = NoStorage
    /\ gaListed = {}
    /\ gaLog = <<>>
    /\ gaFaults = <<>>
    /\ gaPasses = 0
    /\ gaPrevOk = FALSE
    /\ gaShared = Absent
    /\ gaStart = gStore
    /\ gaCrashed = FALSE

SpecCrash == InitCrash /\ [][NextCrash]_vars

\* Calls of ApplyClusterOperator, one after the other.
NextClusterOperator ==
    \/ ClusterOperatorCall
    \/ ClusterOperatorAttempt
    \/ ClusterOperatorOutdated
    \/ ApplyAgain

SpecClusterOperator == InitApply /\ [][NextClusterOperator]_vars

(***************************************************************************)
(* SpecLifecycle: Generator.Apply passes and one Generator.Remove call on  *)
(* the same cluster, one call after the other, in any order. The calls     *)
(* meet no API error.                                                      *)
(***************************************************************************)
\* The cluster before the first call: no object of the fixed generators, any
\* routes.
LifecycleStores == {st \in InitialStores : \A k \in StoreKeys : k.kind # "Route" => ~st[k].exists}

InitLifecycle ==
    /\ CondIdle
    /\ DeployIdle
    /\ cr \in Configs
    /\ RemoveIdle
    /\ HandlerIdle
    /\ MergeIdle
    /\ RequestsIdle
    /\ TemplateIdle
    /\ gStore \in LifecycleStores
    /\ ApplyPassIdle

\* A step of Apply while no Remove call is under way.
LifecycleApply ==
    /\ rmPc \in {"idle", "done"}
    /\ NextApply
    /\ gaFaults' = <<>>

\* A step of Remove while no Apply pass is under way.
LifecycleRemove ==
    /\ gaPc \in {"idle", "done"}
    /\ NextRemove
    /\ rmRetriable' = 0
    /\ rmResult' # "err"

NextLifecycle ==
    \/ LifecycleApply
    \/ LifecycleRemove

SpecLifecycle == InitLifecycle /\ [][NextLifecycle]_vars

(***************************************************************************)
(* SpecMerge: ApplyService or ApplyDeploymentConfig calls on one object    *)
(* that other actors write too.                                            *)
(***************************************************************************)
InitMerge ==
    /\ CondIdle
    /\ DeployIdle
    /\ ConfigIdle
    /\ RemoveIdle
    /\ HandlerIdle
    /\ ApplyIdle
    /\ TemplateIdle
    /\ RequestsIdle
    /\ mKind \in MergeKinds
    /\ mStore \in {MergeNotFound, storedObject(expectObject(mKind, "v1"), 0)}
    /\ mExpect = MergeNotFound
    /\ mPc = "idle"
    /\ mAttempt = 0
    /\ mCurrent = MergeNotFound
    /\ mModified = FALSE
    /\ mResult = "none"
    /\ mWrites = <<>>
    /\ mFaults = 0
    /\ mCalls = 0

NextMerge ==
    \/ MergeCall
    \/ MergeGet
    \/ MergeWrite
    \/ MergeOtherWrite
    \/ MergeReturn

SpecMerge == InitMerge /\ [][NextMerge]_vars

(***************************************************************************)
(* SpecTemplate: CreateOrUpdateResources passes for every storage          *)
(* configuration, Config and cluster.                                      *)
(***************************************************************************)
InitTemplate ==
    /\ CondIdle
    /\ DeployIdle
    /\ cr \in Configs
    /\ RemoveIdle
    /\ HandlerIdle
    /\ MergeIdle
    /\ RequestsIdle
    /\ ApplyIdle
    /\ storage \in Storages
    /\ finalizer \in BOOLEAN
    /\ configState = NoStorageConfig
    /\ tStore \in InitialTemplateStores
    /\ tTemplates = <<>>
    /\ tPc = "idle"
    /\ tIdx = 0
    /\ tAttempt = 0
    /\ tCurrent = NoCurrent
    /\ tResult = "none"
    /\ tModified = FALSE
    /\ tWrites = <<>>
    /\ tFaults = <<>>
    /\ tPasses = 0
    /\ tCleanPrev = FALSE

NextTemplate ==
    \/ CreateOrUpdateResourcesPrepare
    \/ ApplyTemplateGet
    \/ ApplyTemplateWrite
    \/ CreateOrUpdateResourcesFinish
    \/ CreateOrUpdateResourcesAgain

SpecTemplate == InitTemplate /\ [][NextTemplate]_vars

(***************************************************************************)
(* SpecRequests: PodTemplateSpec for every storage configuration and every *)
(* pair of request limits.                                                 *)
(***************************************************************************)
InitRequests ==
    /\ CondIdle
    /\ DeployIdle
    /\ ConfigIdle
    /\ RemoveIdle
    /\ HandlerIdle
    /\ MergeIdle
    /\ ApplyIdle
    /\ storage \in Storages
    /\ finalizer = FALSE
    /\ configState = NoStorageConfig
    /\ tStore = [k \in TemplateKeys |-> NotStored]
    /\ tTemplates = <<>>
    /\ tPc = "idle"
    /\ tIdx = 0
    /\ tAttempt = 0
    /\ tCurrent = NoCurrent
    /\ tResult = "none"
    /\ tModified = FALSE
    /\ tWrites = <<>>
    /\ tFaults = <<>>
    /\ tPasses = 0
    /\ tCleanPrev = FALSE
    /\ requests \in Requests
    /\ qOut = NoPodTemplate

NextRequests ==
    \/ PodTemplateSpecRequests

SpecRequests == InitRequests /\ [][NextRequests]_vars

(***************************************************************************)
(* SpecConverge: CreateOrUpdateResources called again and again on a       *)
(* cluster where no call to the API fails and nobody else writes.          *)
(***************************************************************************)
ConvergePrepare ==
    /\ CreateOrUpdateResourcesPrepareCounted(MaxConvergePasses)
    /\ tFaults' = <<>>

ConvergeGet ==
    /\ ApplyTemplateGet
    /\ tFaults' = <<>>

ConvergeWrite ==
    /\ ApplyTemplateWrite
    /\ tFaults' = <<>>

ConvergeFinish ==
    /\ CreateOrUpdateResourcesFinish
    /\ tFaults' = <<>>

ConvergeAgain ==
    /\ CreateOrUpdateResourcesCalledAgain
    /\ tFaults' = <<>>

NextConverge ==
    \/ ConvergePrepare
    \/ ConvergeGet
    \/ ConvergeWrite
    \/ ConvergeFinish
    \/ ConvergeAgain

\* The handler calls CreateOrUpdateResources on its own goroutine for every
\* event and resync, and every call to the API returns: a step that can be
\* taken is taken.
SpecConverge == InitTemplate /\ [][NextConverge]_vars /\ WF_vars(NextConverge)

(***************************************************************************)
(* SpecCond: the condition list under its two setters and the clock.       *)
(***************************************************************************)
ConditionResourceApply ==
    /\ \E status \in ConditionStatuses : conditionResourceApply(status)
    /\ UNCHANGED <<depVars, cr, rmVars, hVars, gaVars, tVars, mVars, qVars>>

ConditionSyncDeployment ==
    /\ \E status \in ConditionStatuses : conditionSyncDeployment(status)
    /\ UNCHANGED <<depVars, cr, rmVars, hVars, gaVars, tVars, mVars, qVars>>

CondTick ==
    /\ Tick
    /\ UNCHANGED <<depVars, cr, rmVars, hVars, gaVars, tVars, mVars, qVars>>

CondResetFlag ==
    /\ ResetFlag
    /\ UNCHANGED <<depVars, cr, rmVars, hVars, gaVars, tVars, mVars, qVars>>

InitCond ==
    CondInit /\ DeployIdle /\ ConfigIdle /\ RemoveIdle /\ HandlerIdle /\ MergeIdle /\ RequestsIdle /\ ApplyIdle
    /\ TemplateIdle

NextCond ==
    \/ ConditionResourceApply
    \/ ConditionSyncDeployment
    \/ CondTick
    \/ CondResetFlag

SpecCond == InitCond /\ [][NextCond]_vars

(***************************************************************************)
(* SpecDeploy: syncDeploymentStatus over every deployment status.          *)
(***************************************************************************)
DeployResetFlag ==
    /\ ResetFlag
    /\ UNCHANGED <<depVars, cr, rmVars, hVars, gaVars, tVars, mVars, qVars>>

InitDeploy ==
    /\ conditions \in {<<>>, <<Condition("Available", "True", 0, "ResourceApplied")>>}
    /\ now = 0
    /\ statusChanged = FALSE
    /\ condSet = {}
    /\ DeployInit
    /\ ConfigIdle
    /\ RemoveIdle
    /\ HandlerIdle
    /\ MergeIdle
    /\ RequestsIdle
    /\ ApplyIdle
    /\ TemplateIdle

NextDeploy ==
    \/ SyncDeploymentStatus
    \/ DeploymentChange
    \/ DeployResetFlag

SpecDeploy == InitDeploy /\ [][NextDeploy]_vars

(***************************************************************************)
(* Claims on the deployment status sync (SpecDeploy).                      *)
(***************************************************************************)

\* C7 as stated: after a deployment status sync, Progressing is False exactly
\* when the updated, total and available replica counts all equal the replica
\* target and observedGeneration EQUALS the generation.
C7_ProgressingFalseIffAllEqual ==
    syncOut.ran =>
        (syncOut.progressing = "False"
            <=> /\ dep.updated = replicasTarget(dep)
                /\ dep.total = replicasTarget(dep)
                /\ dep.available = replicasTarget(dep)
                /\ dep.observedGeneration = dep.generation)

\* C7 amended: after a deployment status sync, Progressing is False exactly
\* when the updated, total and available replica counts all equal the replica
\* target (1 for a Deployment without one) and observedGeneration is AT LEAST
\* the generation; the value written to the cluster operator is that value.
C7_ProgressingFalseIffComplete ==
    syncOut.ran =>
        /\ syncOut.progressing \in {"True", "False"}
        /\ syncOut.progressing = "False"
            <=> /\ dep.updated = replicasTarget(dep)
                /\ dep.total = replicasTarget(dep)
                /\ dep.available = replicasTarget(dep)
                /\ dep.observedGeneration >= dep.generation
        /\ syncOut.progressingWritten => clusterStatus["Progressing"] = syncOut.progressing

\* C7 witness: a sync found a deployment complete whose observed generation is
\* ahead of its generation, and wrote Progressing=False.
C7_Witness ==
    /\ syncOut.ran
    /\ dep.observedGeneration > dep.generation
    /\ dep.available = replicasTarget(dep)
    /\ dep.specReplicas = MaxReplicas
    /\ syncOut.progressing = "False"
    /\ clusterStatus["Progressing"] = "False"

\* C8: after a deployment status sync, the computed Available condition is
\* True if and only if the deployment has at least one available replica,
\* whatever the replica target and the generations are; the value written to
\* the cluster operator is that value.
C8_AvailableIffAvailableReplica ==
    syncOut.ran =>
        /\ syncOut.available \in {"True", "False"}
        /\ syncOut.available = "True" <=> dep.available > 0
        /\ syncOut.availableWritten => clusterStatus["Available"] = syncOut.available

\* C8 witness: a deployment that is still progressing (its available replicas
\* differ from the target) and has an available replica was synced Available.
C8_Witness ==
    /\ syncOut.ran
    /\ dep.available > 0
    /\ dep.available # replicasTarget(dep)
    /\ dep.observedGeneration < dep.generation
    /\ syncOut.available = "True"
    /\ syncOut.progressing = "True"
    /\ clusterStatus["Available"] = "True"

(***************************************************************************)
(* Claims on the condition list (SpecCond).                                *)
(***************************************************************************)

\* C9: setting a condition whose status differs from the stored condition of
\* its type sets lastTransitionTime to the time of the call; setting a
\* condition whose status equals the stored one leaves the stored
\* lastTransitionTime of that type unchanged.
C9_TimestampOnlyOnTransition ==
    [][\A i \in DOMAIN conditions : \A j \in DOMAIN conditions' :
          conditions[i].type = conditions'[j].type =>
              IF conditions[i].status = conditions'[j].status
              THEN conditions'[j].lastTransitionTime = conditions[i].lastTransitionTime
              ELSE conditions'[j].lastTransitionTime = now]_vars

(***************************************************************************)
(* Claims on Generator.Remove (SpecRemove, SpecRemoveFair).                *)
(***************************************************************************)

\* C5: while RemoveStorage returns (retriable=true, error) on every call,
\* Remove calls it once per poll interval and never past the timeout; when
\* every call of a finished Remove was retriable, Remove returned an error
\* and the timeout had elapsed; and a Remove that polls always ends.
C5_BoundedTeardown ==
    /\ [](rmPc = "poll" =>
            /\ rmRetriable = rmCalls
            /\ rmElapsed = rmCalls * PollInterval
            /\ rmElapsed <= PollTimeout)
    /\ []((rmPc = "done" /\ rmCalls > 0 /\ rmRetriable = rmCalls) =>
            /\ rmResult = "err"
            /\ rmElapsed <= PollTimeout
            /\ rmElapsed + PollInterval > PollTimeout)
    /\ (rmPc = "poll" ~> rmPc = "done")

\* C5 witness: Remove ended with an error after RemoveStorage returned a
\* retriable error on every call up to the timeout.
C5_Witness ==
    /\ rmPc = "done"
    /\ rmResult = "err"
    /\ rmCalls > 1
    /\ rmRetriable = rmCalls
    /\ rmElapsed = PollTimeout

\* C6: once a RemoveStorage call has returned (retriable=false, error), it
\* is the last call made and Remove has returned an error; a first call that
\* is not retriable is the only call.
C6_NonRetriableAborts ==
    rmFatalAt > 0 =>
        /\ rmPc = "done"
        /\ rmResult = "err"
        /\ rmCalls = rmFatalAt

\* C6 witness: the first RemoveStorage call returned (false, error).
C6_Witness ==
    /\ rmFatalAt = 1
    /\ rmCalls = 1
    /\ rmRetriable = 0
    /\ rmPc = "done"
    /\ rmResult = "err"

(***************************************************************************)
(* Claims on the event handler (SpecHandler).                              *)
(***************************************************************************)

\* C10: once Handle has returned from an event for a Config in management
\* state Managed, a reconcile pass has been run and the Failing condition of
\* the cluster operator has been set to True or to False after it.
C10_FailingSetByManagedPass ==
    (hReturn # "none" /\ hEvent.kind = "ImageRegistry"
                      /\ hEvent.managementState = "Managed") =>
        /\ hPasses > 0
        /\ clusterStatus["Failing"] \in {"True", "False"}

\* C2: a pass in which exactly one API call failed, and that with a version
\* conflict, whether the call was a Create or an Update, returns success.
C2_ConflictTransparent ==
    (gaPc = "done" /\ Len(gaFaults) = 1 /\ gaFaults[1].err = "conflict"
                   /\ gaFaults[1].op \in {"create", "update"}) =>
        gaResult = "ok"

\* C4: a route leaves the cluster in an Apply pass only if it carries the
\* operator's mark and its name is not among the desired routes, and when the
\* pass returns success no such route is left.
C4_RouteGCExact ==
    /\ [][\A k \in RouteStoreKeys :
            (gStore[k].exists /\ ~gStore'[k].exists) =>
                /\ RouteIsCreatedByOperator(gStore[k])
                /\ k.name \notin knownNames(cr)]_vars
    /\ []((gaPc = "done" /\ gaResult = "ok") =>
            \A k \in RouteStoreKeys :
                (gStore[k].exists /\ RouteIsCreatedByOperator(gStore[k])) =>
                    k.name \in knownNames(cr))

\* C4: a pass has returned success after deleting a route, leaving a route
\* of somebody else that is not desired and a desired route in place.
C4_Witness ==
    /\ gaPc = "done"
    /\ gaResult = "ok"
    /\ \E i \in DOMAIN gaLog : gaLog[i].op = "delete"
    /\ \E k \in RouteStoreKeys :
          gStore[k].exists /\ ~gStore[k].marker /\ k.name \notin knownNames(cr)
    /\ \E k \in RouteStoreKeys : gStore[k].exists /\ k.name \in knownNames(cr)

\* C1: in a pass that follows a pass which returned success, on the same
\* resource and with no write of anybody else in between, no object is
\* created, updated or deleted, whether the pass before created the objects
\* or updated them.
C1_SecondPassWritesNothing ==
    tCleanPrev => tWrites = <<>>

C11_StatusMutatorLast ==
    /\ (gaPc = "apply" /\ list(cr)[gaIdx].kind = "ClusterOperator") =>
          /\ gaIdx = Len(list(cr))
          /\ \A j \in 1 .. Len(list(cr)) :
                list(cr)[j].kind # "ClusterOperator" => j < gaIdx
    /\ \A i, j \in DOMAIN gaLog :
          (i < j /\ gaLog[i].gen.kind = "ClusterOperator") => gaLog[j].op = "delete"

\* C11 witness: a pass with the default route and a declared route has
\* written the deployment, both routes and then the cluster operator.
C11_Witness ==
    /\ gaPc = "done"
    /\ gaResult = "ok"
    /\ Len(listRoutes(cr)) = 2
    /\ \E d, r, q, o \in DOMAIN gaLog :
          /\ d < r /\ r < q /\ q < o
          /\ gaLog[d].gen.kind = "Deployment"
          /\ gaLog[r].gen.kind = "Route"
          /\ gaLog[q].gen.kind = "Route"
          /\ gaLog[o].gen.kind = "ClusterOperator"

\* C12: once the Get, the Create or the Update of a generator has failed
\* with an error that is no conflict, Apply has returned an error at once:
\* nothing failed after it, the objects written in the pass are those of
\* generators before the failing one, and no route was listed or deleted.
C12_AbortOnOtherError ==
    \A f \in DOMAIN gaFaults :
        (gaFaults[f].op \in {"get", "create", "update"} /\ gaFaults[f].err = "error") =>
            /\ gaPc = "done"
            /\ gaResult = "error"
            /\ f = Len(gaFaults)
            /\ gaListed = {}
            /\ \A i \in DOMAIN gaLog :
                  /\ gaLog[i].op # "delete"
                  /\ \E j \in 1 .. (gaIdx - 1) : list(cr)[j] = gaLog[i].gen

\* C12 witness: the Create of the secret failed with another error after
\* earlier generators had written their objects; the deployment, which comes
\* later, is still missing.
C12_Witness ==
    /\ gaPc = "done"
    /\ gaResult = "error"
    /\ gaFaults = <<Fault("create", "error")>>
    /\ list(cr)[gaIdx].kind = "Secret"
    /\ gaLog # <<>>
    /\ ~gStore[Mutator("Deployment", "Deployment")].exists

\* C23: in every run of the closure of Apply the object Get returned is,
\* after the run, as it was when Get returned it, whether Update changed
\* its argument or not and whether the write went through or not; when Get
\* found no object or failed there is no such object.
C23_DefensiveCloning ==
    [][(gaPc = "apply" /\ <<gaIdx, gaAttempt, gaPc>>' # <<gaIdx, gaAttempt, gaPc>>) =>
        LET gen == list(cr)[gaIdx] IN
        IF gStore[gen].exists /\ gaFaults' # Append(gaFaults, Fault("get", "error"))
        THEN gaShared' = gStore[gen]
        ELSE gaShared' = Absent]_vars

\* The Deployment has just been updated: the cluster holds the new object
\* and the object Get returned still has the old content.
C23_Witness ==
    /\ gaPc = "apply"
    /\ gaIdx > 1
    /\ list(cr)[gaIdx - 1].kind = "Deployment"
    /\ gaLog # <<>>
    /\ gaLog[Len(gaLog)] = [op |-> "update", gen |-> list(cr)[gaIdx - 1]]
    /\ gaShared = Object("stale", FALSE)
    /\ gStore[list(cr)[gaIdx - 1]] = Object("desired", FALSE)

(***************************************************************************)
(* Claims on CreateOrUpdateResources (SpecTemplate), continued.            *)
(***************************************************************************)

\* C13: the persisted ConfigState snapshot changes only in the step in which
\* a pass returns success after its last template and the route sync; every
\* other step, a failing end of a pass among them, leaves it as it was.
C13_SnapshotOnlyAfterSuccess ==
    [][configState' # configState =>
          /\ tPc = "finish"
          /\ tPc' = "done"
          /\ tResult' = "ok"]_vars

\* C13 witness: a pass that wrote objects has returned success and the
\* snapshot holds the storage configuration of the resource.
C13_Witness ==
    /\ tPc = "done"
    /\ tResult = "ok"
    /\ tWrites # <<>>
    /\ configState = storage
    /\ configState # NoStorageConfig

C15_StorageSyncDecision ==
    /\ gaStorage.driver =>
          /\ gaStorage.createCalls \in {0, 1}
          /\ gaStorage.createCalls = 1 <=>
                \/ gaStorage.changed
                \/ /\ ~gaStorage.changed
                   /\ gaStorage.existsCalled /\ ~gaStorage.existsErr /\ ~gaStorage.exists
          /\ gaStorage.changed => ~gaStorage.existsCalled
          /\ ~gaStorage.changed => gaStorage.existsCalled
    /\ \A f \in DOMAIN gaFaults :
          gaFaults[f].op \in {"storageExists", "createStorage"} =>
              /\ gaPc = "done"
              /\ gaResult # "ok"
              /\ gaIdx = 0
              /\ gaLog = <<>>

\* C15 witness: the storage had not changed, StorageExists said it is
\* missing, CreateStorage was called and the pass goes on to the generators.
C15_Witness ==
    /\ gaPc = "list"
    /\ gaStorage.driver
    /\ ~gaStorage.changed
    /\ gaStorage.existsCalled
    /\ ~gaStorage.exists
    /\ gaStorage.createCalls = 1

(***************************************************************************)
(* Claims on Generator.Remove (SpecRemove), continued.                     *)
(***************************************************************************)

\* C16: when RemoveStorage has been called, the loop has gone through every
\* generator, each being not owned or having had its Delete return nil or
\* not-found; and when a Delete has failed with another error, Remove has
\* returned an error, RemoveStorage was never called, and no generator after
\* the failing one had its Delete called.
C16_TeardownOrdering ==
    /\ rmCalls > 0 =>
          /\ rmDeleteFailed = {}
          /\ rmIdx = Len(list(cr)) + 1
          /\ \A j \in 1 .. Len(list(cr)) : list(cr)[j] \in rmDeleteCalls \cup rmUnowned
    /\ rmDeleteFailed # {} =>
          /\ rmPc = "done"
          /\ rmResult = "err"
          /\ rmCalls = 0
          /\ rmIdx \in 1 .. Len(list(cr))
          /\ rmDeleteFailed = {list(cr)[rmIdx]}
          /\ \A j \in (rmIdx + 1) .. Len(list(cr)) :
                list(cr)[j] \in rmDeleteCalls => \E k \in 1 .. rmIdx : list(cr)[k] = list(cr)[j]

\* C16 witness: the Delete of the secret failed after earlier objects were
\* deleted; the deployment, later in the list, was not touched and
\* RemoveStorage was not called.
C16_Witness ==
    /\ rmPc = "done"
    /\ rmDeleteFailed = {Mutator("Secret", "Secret")}
    /\ Mutator("ClusterRole", "ClusterRole") \in rmDeleteCalls
    /\ Mutator("Deployment", "Deployment") \notin rmDeleteCalls
    /\ rmCalls = 0

(***************************************************************************)
(* Claims on Generator.Apply (SpecApply), continued.                       *)
(***************************************************************************)
\* C18: when Get finds no object for the generator Apply is at and no API
\* call of that run of the closure fails, the object is created and nothing
\* else in the cluster changes, the only call recorded for the run is the
\* Create (no Update), and the pass goes on to the next generator with no
\* error set; Apply returns an error only after an API call failed.
C18_NotFoundCreates ==
    /\ [](gaResult = "error" => gaFaults # <<>>)
    /\ [][(gaPc = "apply" /\ ~gStore[list(cr)[gaIdx]].exists /\ gaFaults' = gaFaults) =>
            LET gen == list(cr)[gaIdx] IN
            /\ gStore'[gen].exists
            /\ \A k \in StoreKeys \ {gen} : gStore'[k] = gStore[k]
            /\ gaLog' = Append(gaLog, [op |-> "create", gen |-> gen])
            /\ gaIdx' = gaIdx + 1
            /\ gaAttempt' = 1
            /\ gaPc' = IF gaIdx < Len(list(cr)) THEN "apply" ELSE "gc"
            /\ gaResult' = "none"]_vars

\* The Deployment was missing and has just been created: the pass is at the
\* generator after it.
C18_Witness ==
    /\ gaPc = "apply"
    /\ gaFaults = <<>>
    /\ gaResult = "none"
    /\ gaIdx > 1
    /\ list(cr)[gaIdx - 1].kind = "Deployment"
    /\ gaLog # <<>>
    /\ gaLog[Len(gaLog)] = [op |-> "create", gen |-> list(cr)[gaIdx - 1]]
    /\ gStore[list(cr)[gaIdx - 1]].exists

\* C19: Apply makes at most RetrySteps attempts for a generator, and an
\* attempt after the first only follows an Update conflict; Apply returns an
\* error for an Update conflict only when it was met in attempt RetrySteps,
\* and after an Update conflict in that attempt it returns an error in the
\* same step and changes nothing more; when Apply has returned an error at
\* a generator, no generator after it in the list was applied and no route
\* was collected.
C19_BoundedConflictRetry ==
    /\ [](gaAttempt \in 0 .. RetrySteps)
    /\ [](gaPc = "apply" /\ gaAttempt > 1 =>
            /\ gaFaults # <<>>
            /\ gaFaults[Len(gaFaults)] = Fault("update", "conflict"))
    /\ [](/\ gaPc = "done"
          /\ gaResult = "error"
          /\ gaFaults # <<>>
          /\ gaFaults[Len(gaFaults)] = Fault("update", "conflict")
          => gaAttempt = RetrySteps)
    /\ [](gaPc = "done" /\ gaResult = "error" /\ gaIdx \in 1 .. Len(list(cr)) =>
            \A i \in DOMAIN gaLog :
               /\ gaLog[i].op # "delete"
               /\ \E j \in 1 .. (gaIdx - 1) : list(cr)[j] = gaLog[i].gen)
    /\ [][(/\ gaPc = "apply"
            /\ gaAttempt = RetrySteps
            /\ gaIdx' = gaIdx
            /\ gaPc' # gaPc) =>
            /\ gaPc' = "done"
            /\ gaResult' = "error"
            /\ gStore' = gStore
            /\ gaLog' = gaLog
            /\ gaAttempt' = gaAttempt]_vars

\* Every attempt for the ClusterRole met a conflict: Apply has returned an
\* error after RetrySteps attempts and the generators after it were not
\* applied.
C19_Witness ==
    /\ gaPc = "done"
    /\ gaResult = "error"
    /\ gaIdx = 1
    /\ gaAttempt = RetrySteps
    /\ gaFaults = <<Fault("update", "conflict")>>
    /\ gaLog = <<>>
    /\ gStore[list(cr)[2]] = Object("stale", FALSE)

C17_OwnershipScoping ==
    [][/\ \A k \in StoreKeys :
             gStore[k].exists /\ ~gStore'[k].exists =>
                \/ /\ rmPc = "delete"
                   /\ rmIdx \in 1 .. Len(list(cr))
                   /\ k = list(cr)[rmIdx]
                   /\ k \notin rmUnowned'
                   /\ k \in rmDeleteCalls'
                \/ /\ gaPc = "gcloop"
                   /\ k.kind = "Route"
                   /\ RouteIsCreatedByOperator(gStore[k])
       /\ rmUnowned' # rmUnowned => gStore' = gStore]_vars

\* An Apply pass, then Remove, then an Apply pass: Remove left an object it
\* was told is not owned and deleted another one, and a route that no
\* generator stands for and that lacks the mark is still there.
C17_Witness ==
    /\ gaPasses = 2
    /\ gaPc = "done"
    /\ rmPc = "done"
    /\ gaPrevOk
    /\ \E k \in rmUnowned : gStore[k].exists /\ [op |-> "create", gen |-> k] \notin
                                                    {gaLog[i] : i \in DOMAIN gaLog}
    /\ \E k \in rmDeleteCalls : [op |-> "create", gen |-> k] \in {gaLog[i] : i \in DOMAIN gaLog}
    /\ \E k \in StoreKeys :
          /\ k.kind = "Route"
          /\ k.name \notin knownNames(cr)
          /\ gStore[k].exists
          /\ ~RouteIsCreatedByOperator(gStore[k])

(***************************************************************************)
(* Claims on ApplyService and ApplyDeploymentConfig (SpecMerge).           *)
(***************************************************************************)
\* C21: when the object the call fetched carries the checksum annotation
\* with the digest of expect, the step of the call after the Get issues no
\* Create and no Update, leaves the stored object as it is, whatever other
\* actors wrote to it, leaves the flag *modified as the caller set it, and
\* returns nil.
C21_ChecksumFastPath ==
    [][(/\ mPc = "write"
        /\ mPc' # mPc
        /\ mCurrent.exists
        /\ <<checksumOperatorAnnotation, checksum(mExpect)>> \in mCurrent.meta.annotations) =>
        /\ mStore' = mStore
        /\ mWrites' = mWrites
        /\ mModified' = mModified
        /\ mPc' = "done"
        /\ mResult' = "ok"]_vars

\* A second call has returned on the fast path with the flag set by its
\* caller, and the stored object holds a label and spec fields other actors
\* wrote after the first call.
C21_Witness ==
    /\ mPc = "done"
    /\ mResult = "ok"
    /\ mCalls = 2
    /\ mWrites = <<>>
    /\ mModified
    /\ <<checksumOperatorAnnotation, checksum(mExpect)>> \in mStore.meta.annotations
    /\ <<"team", "other">> \in mStore.meta.labels
    /\ mStore.spec = ObjectSpec("set by other", "set by other")

\* C22: when a call updates the object, the label, the annotation, the
\* owner reference and the spec field that another actor set on the object
\* the call fetched, and that the generator does not fill in, are in the
\* written object as they were in the fetched one.
C22_MergeKeepsOtherFields ==
    [][(mPc = "write" /\ mWrites' = Append(mWrites, "update")) =>
        /\ {e \in mStore'.meta.labels : e[1] = "team"}
              = {e \in mCurrent.meta.labels : e[1] = "team"}
        /\ {e \in mStore'.meta.annotations : e[1] = "note"}
              = {e \in mCurrent.meta.annotations : e[1] = "note"}
        /\ mStore'.meta.ownerReferences \cap {"Other"}
              = mCurrent.meta.ownerReferences \cap {"Other"}
        /\ mStore'.spec.other = mCurrent.spec.other]_vars


(***************************************************************************)
(* Claims on interrupted Apply calls (SpecCrash).                          *)
(***************************************************************************)

C25_StatusOnlyRefresh ==
    [][gaPc = "co" =>
        LET co == Mutator("ClusterOperator", "ClusterOperator") IN
        /\ \A k \in StoreKeys : k # co => gStore'[k] = gStore[k]
        /\ gStore'[co] # gStore[co] =>
              /\ gStore'[co].exists
              /\ gaLog' = Append(gaLog, [op |-> IF gStore[co].exists THEN "update" ELSE "create",
                                        gen |-> co])
        /\ gStore'[co] = gStore[co] => gaLog' = gaLog
        /\ gaAttempt' # gaAttempt =>
              /\ gaAttempt < RetrySteps
              /\ gaAttempt' = gaAttempt + 1
              /\ gStore[co].exists
              /\ gaPc' = "co"
        /\ gaStorage' = NoStorage
        /\ gaListed' = {}]_vars

\* A call has updated the cluster operator after a conflict while other
\* objects of the registry were missing or out of date, and left them so.
C25_Witness ==
    /\ gaPc = "done"
    /\ gaResult = "ok"
    /\ gaAttempt > 1
    /\ gaLog = <<[op |-> "update", gen |-> Mutator("ClusterOperator", "ClusterOperator")]>>
    /\ gStore[list(cr)[1]] = Object("stale", FALSE)
    /\ gaStorage = NoStorage

(***************************************************************************)
(* Claims on the event filter of Handle (SpecHandler).                     *)
(***************************************************************************)

C27_DeploymentSeesThisPass ==
    \A i \in DOMAIN tWrites : \A j \in DOMAIN tWrites :
        (i < j /\ tWrites[i].key \in {SecretKey, ConfigMapKey}
               /\ tWrites[j].key = DeploymentKey) =>
            /\ tStore[DeploymentKey].content.secret = storedChecksum(tStore, SecretKey)
            /\ tStore[DeploymentKey].content.configmap = storedChecksum(tStore, ConfigMapKey)

(***************************************************************************)
(* Claims on the condition list (SpecCond), continued.                     *)
(***************************************************************************)
conditionTypes(conds) == {conds[i].type : i \in DOMAIN conds}

distinctTypes(conds) ==
    \A i \in DOMAIN conds : \A j \in DOMAIN conds : conds[i].type = conds[j].type => i = j

\* C28: a step from a condition list with pairwise distinct types leaves a
\* list with pairwise distinct types that has an entry for every type
\* updateCondition was ever called with; the entries that were in the list
\* keep their places, and at most one entry, that of the type set, is changed
\* or added.
C28_ConditionsKeyedByType ==
    [][distinctTypes(conditions) =>
        /\ distinctTypes(conditions')
        /\ condSet' \subseteq conditionTypes(conditions')
        /\ Len(conditions') >= Len(conditions)
        /\ \A i \in DOMAIN conditions : conditions'[i].type = conditions[i].type
        /\ Cardinality({i \in DOMAIN conditions : conditions'[i] # conditions[i]})
              + (Len(conditions') - Len(conditions)) <= 1
        /\ \A i \in DOMAIN conditions :
              conditions'[i] # conditions[i] => conditions[i].type \in condSet']_vars

\* Both types of the handler were set on a list that held another type:
\* Available was changed in place, SyncSuccessful was added at the end, and
\* the entry of the other type is as it was.
C28_Witness ==
    /\ condSet = {"Available", "SyncSuccessful"}
    /\ Len(conditions) = 3
    /\ conditions[1] = Condition("Failing", "False", 0, "External")
    /\ conditions[2].type = "Available"
    /\ conditions[2].status = "False"
    /\ conditions[3].type = "SyncSuccessful"

\* C29: a step that sets a condition to the status its type already has in
\* the list does not report a modification: statusChanged, the flag on which
\* alone Handle writes the Config, is not raised by it.
C29_SameStatusNotModified ==
    [][(/\ condSet' # {}
        /\ Len(conditions') = Len(conditions)
        /\ \A i \in DOMAIN conditions :
              /\ conditions'[i].type = conditions[i].type
              /\ conditions'[i].status = conditions[i].status) =>
        (statusChanged' => statusChanged)]_vars

\* Available was set again to the status it had, at a later time, and no
\* modification is reported.
C29_Witness ==
    /\ ~statusChanged
    /\ condSet = {"Available"}
    /\ now = 1
    /\ conditions = <<Condition("Failing", "False", 0, "External"),
                      Condition("Available", "True", 1, "ResourceApplied")>>

(***************************************************************************)
(* Claims on the errors of the storage configuration (SpecTemplate).       *)
(***************************************************************************)

\* C30: when the storage driver has failed with ErrStorageNotConfigured or
\* with a ConfigurationError, the pass has returned that very error, and no
\* template was generated or applied; when it failed with another error the
\* pass has returned an error that is neither of the two.
C30_ConfigurationErrorKept ==
    \A f \in DOMAIN tFaults :
        tFaults[f].op \in {"NewDriver", "ValidateConfiguration"} =>
            /\ tPc = "done"
            /\ tTemplates = <<>>
            /\ tWrites = <<>>
            /\ IF tFaults[f].err \in {"ErrStorageNotConfigured", "ConfigurationError"}
               THEN tResult = tFaults[f].err
               ELSE tResult \notin {"ErrStorageNotConfigured", "ConfigurationError"}

(***************************************************************************)
(* Claims on the handler's control flow (SpecHandler).                     *)
(***************************************************************************)

\* C31: once Handle has returned from the event of a Config in management
\* state Managed or Removed, it has run a pass for that Config: the
\* create-or-update of the managed objects, or the removal.
C31_EventsDriveReconcile ==
    (/\ hReturn # "none"
     /\ hEvent.kind = "ImageRegistry"
     /\ ~hEvent.deleted
     /\ hEvent.managementState \in {"Managed", "Removed"}) =>
        hPasses > 0

C32_HostPathRejected ==
    storage.hostPath =>
        /\ generateDeploymentConfigStorage(storage) = "HostPath is not supported"
        /\ podTemplateSpecError(storage, tStore) = "HostPath is not supported"
        /\ podTemplateSpecError(storage, [k \in DOMAIN tStore |-> NotStored])
              = "HostPath is not supported"
        /\ tTemplates = <<>>
        /\ \A i \in DOMAIN tWrites : tWrites[i].key # DeploymentKey
        /\ tPc \notin {"get", "write", "finish"}
        /\ tPc = "done" => tResult \notin {"ok", "none"}

\* A pass on a resource whose only backend is a filesystem with a host path,
\* on a cluster that has the secret and the config map, has returned "unable
\* to generate templates" though nothing else failed.
C32_Witness ==
    /\ storage = [backends |-> {"filesystem"}, hostPath |-> TRUE]
    /\ tStore[SecretKey].exists
    /\ tStore[ConfigMapKey].exists
    /\ tPc = "done"
    /\ tFaults = <<>>
    /\ tWrites = <<>>
    /\ tResult = "unable to generate templates"

(***************************************************************************)
(* Claims on Generator.Remove (SpecRemove), continued.                     *)
(***************************************************************************)

\* C33: a RemoveStorage call that returns no error after calls that all
\* returned a retriable error ends the poll: Remove returns success, the
\* call was the one after the retriable ones, and it came within the
\* timeout. A Remove that returned success after polling has met no other
\* errors than retriable ones.
C33_TransientAbsorbed ==
    /\ [][(rmPc = "poll" /\ rmCalls' = rmCalls + 1 /\ rmRetriable' = rmRetriable
                         /\ rmFatalAt' = rmFatalAt) =>
            /\ rmPc' = "done"
            /\ rmResult' = "ok"
            /\ rmCalls' = rmRetriable + 1
            /\ rmElapsed' = rmRetriable * PollInterval
            /\ rmElapsed' <= PollTimeout]_vars
    /\ []((rmPc = "done" /\ rmResult = "ok" /\ rmCalls > 0) =>
            /\ rmCalls = rmRetriable + 1
            /\ rmFatalAt = 0)

\* Remove returned success after two retriable errors of RemoveStorage and
\* a third call without error.
C33_Witness ==
    /\ rmPc = "done"
    /\ rmResult = "ok"
    /\ rmRetriable = 2
    /\ rmCalls = 3
    /\ rmElapsed = 2 * PollInterval

(***************************************************************************)
(* Claims on ApplyService and ApplyDeploymentConfig (SpecMerge), continued. *)
(***************************************************************************)

\* C35: with another actor writing the object at any moment, an Update the
\* cluster accepts was computed from the object as it is stored at the
\* moment of the write; an Update computed from an older version changes
\* nothing and is answered by a conflict; and every attempt, the one after a
\* conflict too, comes to its write with the object its own Get has just
\* read.
C35_NoStaleWrite ==
    [][/\ (mPc = "write" /\ mWrites' = Append(mWrites, "update")) =>
            /\ mCurrent = mStore
            /\ mStore'.meta.resourceVersion # mStore.meta.resourceVersion
       /\ (mPc = "write" /\ mPc' # mPc /\ mCurrent.exists /\ mStore.exists
            /\ mCurrent.meta.resourceVersion # mStore.meta.resourceVersion) =>
            /\ mStore' = mStore
            /\ mWrites' = mWrites
       /\ (mPc = "write" /\ mAttempt' = mAttempt + 1) =>
            /\ mPc' = "get"
            /\ mStore' = mStore
       /\ (mPc # "write" /\ mPc' = "write") =>
            /\ mPc = "get"
            /\ mCurrent' = mStore]_vars

\* Another actor wrote the object between the Get and the Update of the
\* first attempt; the Update was refused, and the second attempt read the
\* object again and updated it.
C35_Witness ==
    /\ mPc = "done"
    /\ mResult = "ok"
    /\ mAttempt = 2
    /\ mFaults = 0
    /\ mWrites = <<"update">>
    /\ <<"team", "other">> \notin mStore.meta.labels
    /\ mStore.spec.other = "set by other"

(***************************************************************************)
(* Claims on the flag of CreateOrUpdateResources (SpecTemplate).           *)
(***************************************************************************)

\* C36: once a Create or an Update of the pass has gone through and the flag
\* is true, no later step of the pass, a failed or a repeated write among
\* them, makes it false.
C36_ModifiedMonotone ==
    [][(tModified /\ tWrites # <<>> /\ tPc \in {"get", "write", "finish"}) =>
        tModified']_vars

(***************************************************************************)
(* Claims on syncDeploymentStatus (SpecDeploy), continued.                 *)
(***************************************************************************)

\* C38: after a deployment status sync the resource has one SyncSuccessful
\* condition; it is True with reason DeploymentProgressed exactly when the
\* computed Progressing is False, and False with reason DeploymentInProgress
\* exactly when Progressing is True.
C38_SyncSuccessfulMirrorsProgress ==
    syncOut.ran =>
        /\ Cardinality({i \in DOMAIN conditions : conditions[i].type = "SyncSuccessful"}) = 1
        /\ \A i \in DOMAIN conditions :
              conditions[i].type = "SyncSuccessful" =>
                 /\ syncOut.progressing \in {"True", "False"}
                 /\ (conditions[i].status = "True" /\ conditions[i].reason = "DeploymentProgressed")
                       <=> syncOut.progressing = "False"
                 /\ (conditions[i].status = "False" /\ conditions[i].reason = "DeploymentInProgress")
                       <=> syncOut.progressing = "True"

\* A sync of a complete deployment has set SyncSuccessful to True behind
\* the Available condition the resource had.
C38_Witness ==
    /\ syncOut.ran
    /\ syncOut.progressing = "False"
    /\ Len(conditions) = 2
    /\ conditions[2].type = "SyncSuccessful"
    /\ conditions[2].status = "True"
    /\ conditions[2].reason = "DeploymentProgressed"

Converged ==
    /\ podTemplateSpecError(storage, tStore) = "none"
    /\ \A i \in DOMAIN GenerateTemplates(cr, tStore) :
          /\ tStore[GenerateTemplates(cr, tStore)[i].key].exists
          /\ checksumMatches(tStore[GenerateTemplates(cr, tStore)[i].key],
                             GenerateTemplates(cr, tStore)[i])
    /\ tWrites = <<>>
    /\ tResult \in {"none", "ok"}

\* C37: with a valid storage configuration, no failing call and no other
\* writer, repeated passes reach a state from which no pass writes and in
\* which every managed object carries the checksum of its desired object.
C37_Convergence ==
    podTemplateSpecStorage(storage) = "none" => <>[]Converged

(***************************************************************************)
(* Claims on the request limits (SpecRequests).                            *)
(***************************************************************************)

\* The variables of env whose name starts the way the variables of
\* direction dir do.
envOf(dir) ==
    {i \in DOMAIN qOut.env :
        qOut.env[i].name \in
           (IF dir = "Read"
            THEN {"REGISTRY_OPENSHIFT_REQUESTS_READ_MAXRUNNING",
                  "REGISTRY_OPENSHIFT_REQUESTS_READ_MAXINQUEUE",
                  "REGISTRY_OPENSHIFT_REQUESTS_READ_MAXWAITINQUEUE"}
            ELSE {"REGISTRY_OPENSHIFT_REQUESTS_WRITE_MAXRUNNING",
                  "REGISTRY_OPENSHIFT_REQUESTS_WRITE_MAXINQUEUE",
                  "REGISTRY_OPENSHIFT_REQUESTS_WRITE_MAXWAITINQUEUE"})}

bothZero(dir) == requests[dir].maxRunning = 0 /\ requests[dir].maxInQueue = 0

anyNegative(dir) == requests[dir].maxRunning < 0 \/ requests[dir].maxInQueue < 0

\* C40: with a storage configuration that passes, a direction whose
\* MaxRunning and MaxInQueue are both zero gets no throttling variable; a
\* direction with a nonzero limit makes PodTemplateSpec fail without a pod
\* template when one of the two is negative, and gets exactly its three
\* throttling variables otherwise.
C40_RequestLimits ==
    (qOut.called /\ podTemplateSpecStorage(storage) = "none") =>
        /\ (\E dir \in Directions : anyNegative(dir))
              <=> (qOut.err # "none" /\ ~qOut.template /\ qOut.env = <<>>)
        /\ (\A dir \in Directions : ~anyNegative(dir))
              <=> (qOut.err = "none" /\ qOut.template)
        /\ \A dir \in Directions :
              /\ bothZero(dir) => envOf(dir) = {}
              /\ (~bothZero(dir) /\ qOut.template) =>
                    /\ Cardinality(envOf(dir)) = 3
                    /\ Cardinality({qOut.env[i].name : i \in envOf(dir)}) = 3
        /\ Len(qOut.env) = Cardinality(envOf("Read")) + Cardinality(envOf("Write"))

\* Only MaxInQueue of Read is set: the three variables of Read and none of
\* Write.
C40_Witness ==
    /\ qOut.called
    /\ requests.Read.maxRunning = 0
    /\ requests.Read.maxInQueue = 1
    /\ requests.Read.maxWaitInQueue = "30s"
    /\ bothZero("Write")
    /\ qOut.template
    /\ qOut.env = << [name |-> "REGISTRY_OPENSHIFT_REQUESTS_READ_MAXRUNNING", value |-> "0"],
                     [name |-> "REGISTRY_OPENSHIFT_REQUESTS_READ_MAXINQUEUE", value |-> "1"],
                     [name |-> "REGISTRY_OPENSHIFT_REQUESTS_READ_MAXWAITINQUEUE", value |-> "30s"] >>
====

